---- MODULE Spec2Model ----
(***************************************************************************)
(* A TLA+ model of the matching / price-inference engine of the           *)
(* Ecommerce-Companion repository.                                         *)
(*                                                                         *)
(* The module holds several specifications, one per part of the program:  *)
(*   SpecSearch  the search-widening steps of ItemProcessor.process        *)
(*               (src/ItemProcessor.py lines 66-116).                      *)
(*   SpecItem    the rest of ItemProcessor.process from a given pool of    *)
(*               listing records: initialize_products, set_item_info on   *)
(*               the first filtered copy, set_average_item_info,          *)
(*               set_item_info on the item and ItemCalculator.set_scores. *)
(*               The walk over the accuracy bands takes one step per      *)
(*               call of calculate_price_and_score.                       *)
(*   SpecLot     LotProcessor.process (src/LotProcessor.py lines 76-159)  *)
(*               on a lot of items, called twice on the same lot while    *)
(*               the marketplace answers with the same pool.  One step    *)
(*               per iteration of the loop over the items.                *)
(*   SpecClean   ProductCleaner.clean (src/ProductCleaner.py lines 49-65) *)
(*               on a product as create_product builds it, one step per   *)
(*               call it makes.  Titles are sequences of characters and   *)
(*               the regular expressions are computed on them.  clean is  *)
(*               called up to twice on the same product.                  *)
(*   SpecFee     ItemCalculator.calculate_buyer_protection_fee             *)
(*               (src/ItemCalculator.py lines 252-275) on its own, over a *)
(*               grid of sell prices that covers every tier.              *)
(*   SpecToken   TokenSet.tokenize_variant_name (src/TokenSet.py lines    *)
(*               31-63) on its own, over every short text.                *)
(*   SpecAccuracy  ProductCalculator.set_accuracy                          *)
(*               (src/ProductCalculator.py lines 43-53) for one target    *)
(*               and one candidate, with the functions it calls.          *)
(* Every specification assigns all variables; the variables of the parts  *)
(* it does not exercise are parked at their "off" value and never change. *)
(*                                                                         *)
(* Money is held in pence and confidences in hundredths of a point, so    *)
(* that round(x, 2) of the program is a rounding to an integer here.      *)
(* Penalties are held in percent (0.1 is 10).                              *)
(***************************************************************************)
EXTENDS Integers, Sequences, FiniteSets, TLC

VARIABLES
    s_pc,             \* position inside ItemProcessor.process (search part)
    params,           \* the params dict, mutated in place by process
    original_params,  \* params.copy() taken after the first query
    penalty,          \* the local variable penalty
    found_products,   \* the accumulated list of raw listing records
    queries,          \* every get_items call so far, in order (history)
    i_pc,             \* position inside ItemProcessor.process (after the search)
    item,             \* the Item being processed, with its Product objects
    filtered_item,    \* filtered_items[0][0], the first filtered copy of item
    filtered_scores,  \* products' accuracy_score of filtered_items[1..3], in list order
    all_accuracies,   \* the local list all_accuracies of set_item_info
    walk_i,           \* the loop variable i of set_item_info
    l_pc,             \* position inside LotProcessor.process
    jobLot,           \* the JobLot being processed, with its Item objects
    l_i,              \* how many items of jobLot.items the loop has taken
    totals,           \* the running sums of LotProcessor.process
    market,           \* the pool the marketplace returns for each item name
    calls,            \* how many times process has been called on jobLot
    first_result,     \* jobLot as the first call of process left it (history)
    l_failed,         \* names of the items whose per-item call raised (history)
    c_pc,             \* position inside ProductCleaner.clean
    c_product,        \* the Product being cleaned
    c_item,           \* the Item it is cleaned against
    c_units,          \* the local list item_units of clean
    c_values,         \* the local list item_values of clean
    c_created,        \* the Product as create_product built it (history)
    c_calls,          \* how many times clean has returned for the Product
    c_first,          \* the Product as the first call of clean left it (history)
    f_pc,             \* position around calculate_buyer_protection_fee
    f_item,           \* the Item it is applied to
    f_price,          \* item.sell_price before the call (history)
    t_pc,             \* position around TokenSet.tokenize_variant_name
    t_name,           \* good.variant_name
    t_raw,            \* the list tokens_raw it returns
    t_normalized,     \* the list tokens_normalized it returns
    a_pc,             \* where one set_accuracy call stands: "call", "done" or "raised"
    a_item,           \* the target of the call (Item)
    a_product,        \* the filtered candidate of the call (Product)
    a_tier,           \* the tier of calculate_accuracy_is_match that applied, 0 for none
    a_no_match,       \* whether calculate_accuracy_no_match was entered
    a_counts,         \* the counters of its token loop once the loop has run (history)
    e_pc,             \* position inside EbayJobLotsCreator.create
    e_lots,           \* the itemSummaries of the create call under way
    e_k,              \* how many of them its loop has taken
    all_job_lots,     \* the lots stored in ./Operations/all_job_lots.pkl
    working_job_lots, \* the lots stored in ./Operations/working_job_lots.pkl
    e_market,         \* the pool the marketplace returns for each item name
    e_catalogue,      \* the lots the marketplace holds, in the order it returns them
    e_calls,          \* how many create calls have been started
    e_images,         \* how many images create_custom_from_img has been given
    e_log,            \* what the creators did for each lot, in order (history)
    p_pc,             \* position inside ProductProcessor.process
    p_before,         \* the target item as process was handed it (history)
    p_filtered,       \* the filtered copies filter_name returned
    p_k,              \* how many of them the scoring loop has taken
    p_tiers           \* the tier that applied to each copy scored (history)

searchVars == <<s_pc, params, original_params, penalty, found_products, queries>>

itemVars == <<i_pc, item, filtered_item, filtered_scores, all_accuracies, walk_i>>

lotVars == <<l_pc, jobLot, l_i, totals, market, calls, first_result, l_failed>>

cleanVars == <<c_pc, c_product, c_item, c_units, c_values, c_created,
               c_calls, c_first>>

feeVars == <<f_pc, f_item, f_price>>

tokenVars == <<t_pc, t_name, t_raw, t_normalized>>

accuracyVars == <<a_pc, a_item, a_product, a_tier, a_no_match, a_counts>>

createVars == <<e_pc, e_lots, e_k, all_job_lots, working_job_lots, e_market,
                e_catalogue, e_calls, e_images, e_log>>

processVars == <<p_pc, p_before, p_filtered, p_k, p_tiers>>

vars == <<searchVars, itemVars, lotVars, cleanVars, feeVars, tokenVars, accuracyVars,
          createVars, processVars>>

(***************************************************************************)
(* Bounds of the model.                                                    *)
(***************************************************************************)
MaxBatch == 3        \* most records one marketplace answer holds here
NumListings == 2     \* distinct listings the marketplace can return

(***************************************************************************)
(* Generic helpers on dicts (functions with a finite domain) and lists.   *)
(***************************************************************************)
Pop(d, k) == [x \in (DOMAIN d) \ {k} |-> d[x]]

Put(d, k, v) == [x \in (DOMAIN d) \cup {k} |-> IF x = k THEN v ELSE d[x]]

Get(d, k, default) == IF k \in DOMAIN d THEN d[k] ELSE default

SeqsUpTo(S, n) == UNION {[1..k -> S] : k \in 0..n}

\* The value the variables of the aggregation part hold while it is not run.
ItemOff ==
    /\ i_pc = "off"
    /\ item = <<>>
    /\ filtered_item = <<>>
    /\ filtered_scores = <<>>
    /\ all_accuracies = <<>>
    /\ walk_i = 0

\* The value the variables of the lot part hold while it is not run.
LotOff ==
    /\ l_pc = "off"
    /\ jobLot = <<>>
    /\ l_i = 0
    /\ totals = <<>>
    /\ market = <<>>
    /\ calls = 0
    /\ first_result = <<>>
    /\ l_failed = {}

\* The value the variables of the cleaning part hold while it is not run.
CleanOff ==
    /\ c_pc = "off"
    /\ c_product = <<>>
    /\ c_item = <<>>
    /\ c_units = <<>>
    /\ c_values = <<>>
    /\ c_created = <<>>
    /\ c_calls = 0
    /\ c_first = <<>>

\* The value the variables of the fee part hold while it is not run.
FeeOff ==
    /\ f_pc = "off"
    /\ f_item = <<>>
    /\ f_price = 0

\* The value the variables of the tokenizer part hold while it is not run.
TokenOff ==
    /\ t_pc = "off"
    /\ t_name = <<>>
    /\ t_raw = <<>>
    /\ t_normalized = <<>>

\* The value the variables of the scoring part hold while it is not run.
AccuracyOff ==
    /\ a_pc = "off"
    /\ a_item = <<>>
    /\ a_product = <<>>
    /\ a_tier = 0
    /\ a_no_match = FALSE
    /\ a_counts = <<>>

\* The value the variables of the creators hold while they are not run.
CreateOff ==
    /\ e_pc = "off"
    /\ e_lots = <<>>
    /\ e_k = 0
    /\ all_job_lots = <<>>
    /\ working_job_lots = <<>>
    /\ e_market = <<>>
    /\ e_catalogue = <<>>
    /\ e_calls = 0
    /\ e_images = 0
    /\ e_log = <<>>

\* The value the variables of ProductProcessor.process hold while it is not run.
ProcessOff ==
    /\ p_pc = "off"
    /\ p_before = <<>>
    /\ p_filtered = <<>>
    /\ p_k = 0
    /\ p_tiers = <<>>

(***************************************************************************)
(* The search-widening steps of ItemProcessor.process.                     *)
(***************************************************************************)
CondNew == "conditions:{NEW}"
CondUsed == "conditions:{USED}"

\* str.upper() on the two values JobLot.condition takes.
Upper(s) == CASE s = "New" -> "NEW"
              [] s = "Used" -> "USED"
              [] OTHER -> s

\* The params dict a caller hands to process.  Main and the module's own
\* entry point write the condition with doubled braces, LotProcessor
\* interpolates jobLot.condition.upper() into the f-string.
DirectParams(conditions) ==
    [filter |-> "filter=",
     buyingOptions |-> "buyingOptions:{FIXED_PRICE}",
     conditions |-> conditions,
     deliveryCountry |-> "deliveryCountry:GB",
     itemLocationCountry |-> "itemLocationCountry:GB"]

LotParams(condition) ==
    [filter |-> "filter=",
     buyingOptions |-> "buyingOptions:{FIXED_PRICE}",
     conditions |-> "conditions:" \o Upper(condition),
     deliveryCountry |-> "deliveryCountry:GB",
     itemLocationCountry |-> "itemLocationCountry:GB"]

CallerParams == {DirectParams(CondNew), DirectParams(CondUsed),
                 LotParams("New"), LotParams("Used")}

\* What the marketplace may answer: any list of at most MaxBatch summaries.
\* A summary is a fresh dict per call (response.json()); only its itemId is
\* kept here, the title and prices play no part in the search steps.
Summaries == {[itemId |-> i] : i \in 1..NumListings}

Responses == SeqsUpTo(Summaries, MaxBatch)

\* The size below which the next, wider query is issued.
MIN_PRODUCTS == 3

NeedMore_wide(n) == n <= MIN_PRODUCTS

NeedMore(n) == n < MIN_PRODUCTS

\* Line 75-76 and 102-103: both country filters are dropped.
DropCountry(p) == Pop(Pop(p, "deliveryCountry"), "itemLocationCountry")

\* Line 86-87: both country filters are put back.
RestoreCountry(p) ==
    Put(Put(p, "deliveryCountry", "deliveryCountry:GB"),
        "itemLocationCountry", "itemLocationCountry:GB")

\* Lines 88-93 and 104-109: the condition is flipped when the original
\* condition is spelled exactly as one of the two braced literals.
FlipCondition(p, orig) ==
    IF orig.conditions = CondNew THEN Put(p, "conditions", CondUsed)
    ELSE IF orig.conditions = CondUsed THEN Put(p, "conditions", CondNew)
    ELSE p

FlipPenalty(orig, old) ==
    IF orig.conditions = CondNew THEN 10
    ELSE IF orig.conditions = CondUsed THEN 60
    ELSE old

\* The tagging loops: each sets keys on the records of the new batch.
TagCountry(batch) ==
    [i \in 1..Len(batch) |-> Put(batch[i], "acc_penalty", 10)]

TagCondition(batch, pen) ==
    [i \in 1..Len(batch) |->
        Put(Put(batch[i], "acc_penalty", pen), "price_penalty", pen)]

TagBoth(batch, pen) ==
    [i \in 1..Len(batch) |->
        Put(Put(batch[i], "acc_penalty", pen + 10), "price_penalty", pen)]

\* found_products.extend(batch) after the batch was tagged.
Extend_retag(pool, batch) ==
    [i \in 1..(Len(pool) + Len(batch)) |->
        IF i <= Len(pool)
        THEN IF Len(batch) > 0
             THEN Put(pool[i], "acc_penalty", Get(batch[1], "acc_penalty", 0))
             ELSE pool[i]
        ELSE batch[i - Len(pool)]]

Extend(pool, batch) == pool \o batch

\* One get_items call: the request is logged; it either raises (any status
\* other than 200) or hands back the summaries.
Issue(step, p) ==
    queries' = Append(queries,
                      [step |-> step, params |-> p, had |-> Len(found_products)])

AfterBatch(pool, next) == IF NeedMore(Len(pool)) THEN next ELSE "normalize"

Strict ==
    /\ UNCHANGED <<itemVars, lotVars, cleanVars, feeVars, tokenVars, accuracyVars, createVars,
                   processVars>>
    /\ s_pc = "strict"
    /\ Issue("strict", params)
    /\ \/ /\ s_pc' = "raised"
          /\ UNCHANGED <<params, original_params, penalty, found_products>>
       \/ \E resp \in Responses :
            /\ found_products' = resp
            /\ original_params' = params
            /\ penalty' = 0
            /\ s_pc' = AfterBatch(resp, "relax_country")
            /\ UNCHANGED params

RelaxCountry ==
    /\ UNCHANGED <<itemVars, lotVars, cleanVars, feeVars, tokenVars, accuracyVars, createVars,
                   processVars>>
    /\ s_pc = "relax_country"
    /\ params' = DropCountry(params)
    /\ Issue("relax_country", params')
    /\ \/ /\ s_pc' = "raised"
          /\ UNCHANGED <<original_params, penalty, found_products>>
       \/ \E resp \in Responses :
            /\ found_products' = Extend(found_products, TagCountry(resp))
            /\ s_pc' = AfterBatch(found_products', "relax_condition")
            /\ UNCHANGED <<original_params, penalty>>

RelaxCondition ==
    /\ UNCHANGED <<itemVars, lotVars, cleanVars, feeVars, tokenVars, accuracyVars, createVars,
                   processVars>>
    /\ s_pc = "relax_condition"
    /\ params' = FlipCondition(RestoreCountry(params), original_params)
    /\ penalty' = FlipPenalty(original_params, penalty)
    /\ Issue("relax_condition", params')
    /\ \/ /\ s_pc' = "raised"
          /\ UNCHANGED <<original_params, found_products>>
       \/ \E resp \in Responses :
            /\ found_products' = Extend(found_products, TagCondition(resp, penalty'))
            /\ s_pc' = AfterBatch(found_products', "relax_both")
            /\ UNCHANGED original_params

RelaxBoth ==
    /\ UNCHANGED <<itemVars, lotVars, cleanVars, feeVars, tokenVars, accuracyVars, createVars,
                   processVars>>
    /\ s_pc = "relax_both"
    /\ params' = FlipCondition(DropCountry(params), original_params)
    /\ penalty' = FlipPenalty(original_params, penalty)
    /\ Issue("relax_both", params')
    /\ \/ /\ s_pc' = "raised"
          /\ UNCHANGED <<original_params, found_products>>
       \/ \E resp \in Responses :
            /\ found_products' = Extend(found_products, TagBoth(resp, penalty'))
            /\ s_pc' = "normalize"
            /\ UNCHANGED original_params

SearchInit ==
    /\ s_pc = "strict"
    /\ params \in CallerParams
    /\ original_params = <<>>
    /\ penalty = 0
    /\ found_products = <<>>
    /\ queries = <<>>
    /\ ItemOff
    /\ LotOff
    /\ CleanOff
    /\ FeeOff
    /\ TokenOff
    /\ AccuracyOff
    /\ CreateOff
    /\ ProcessOff

SearchNext == Strict \/ RelaxCountry \/ RelaxCondition \/ RelaxBoth

SpecSearch == SearchInit /\ [][SearchNext]_vars

(***************************************************************************)
(* Claims about the search-widening steps (checked under SpecSearch).      *)
(***************************************************************************)
HasCountry(p) == {"deliveryCountry", "itemLocationCountry"} \subseteq DOMAIN p

NoCountry(p) == {"deliveryCountry", "itemLocationCountry"} \cap DOMAIN p = {}

StepOrder == <<"strict", "relax_country", "relax_condition", "relax_both">>

\* The batch a record belongs to, read off the keys its tagging loop wrote.
BatchOf(r) ==
    IF "acc_penalty" \notin DOMAIN r THEN 1
    ELSE IF "price_penalty" \notin DOMAIN r THEN 2
    ELSE IF r.acc_penalty = r.price_penalty THEN 3
    ELSE 4

IsNewCondition(c) == c \in {"conditions:{NEW}", "conditions:NEW"}

IsUsedCondition(c) == c \in {"conditions:{USED}", "conditions:USED"}

\* C3: the queries go out in the order strict, relax_country,
\* relax_condition, relax_both (country filters present, dropped, present,
\* dropped); every query after the first is issued only when the pool held
\* fewer than 3 records; at most 4 queries are issued; and once the pool
\* holds 3 records no step issues another query.
C3_QueryOrder ==
    /\ [](/\ Len(queries) <= 4
          /\ \A k \in 1..Len(queries) :
               /\ queries[k].step = StepOrder[k]
               /\ (k \in {1, 3}) => HasCountry(queries[k].params)
               /\ (k \in {2, 4}) => NoCountry(queries[k].params)
               /\ (k > 1) => queries[k].had < 3
               /\ (k = 1) => queries[k].had = 0
          /\ (s_pc = "normalize") =>
               (Len(queries) = 4 \/ Len(found_products) >= 3))
    /\ [][Len(found_products) >= 3 => queries' = queries]_vars

C3_AllFourIssued ==
    /\ s_pc = "normalize"
    /\ Len(queries) = 4
    /\ Len(found_products) < 3

\* C4: whenever the relax_condition step fires, its query carries the
\* opposite condition of the original search and every record of its batch
\* carries confidence penalty and price penalty 0.1 (New to Used) or 0.6
\* (Used to New).
C4_ConditionFlipped ==
    [][(s_pc = "relax_condition" /\ Len(queries') > Len(queries)) =>
         LET q == queries'[Len(queries')]
             orig == original_params.conditions
             want == IF IsNewCondition(orig) THEN 10 ELSE 60
         IN /\ IsNewCondition(orig) => IsUsedCondition(q.params.conditions)
            /\ IsUsedCondition(orig) => IsNewCondition(q.params.conditions)
            /\ \A i \in (Len(found_products) + 1)..Len(found_products') :
                 /\ Get(found_products'[i], "acc_penalty", 0) = want
                 /\ Get(found_products'[i], "price_penalty", 0) = want]_vars

C4_FlipFired ==
    /\ Len(queries) >= 3
    /\ original_params.conditions = "conditions:NEW"
    /\ \E i \in 1..Len(found_products) : BatchOf(found_products[i]) = 3

\* C5: a step never removes or rewrites a record already in the pool (no
\* earlier record gains or changes a penalty), it only appends its own
\* batch after them, so the pool is ordered by batch.
C5_PoolAppendOnly ==
    /\ [][/\ Len(found_products') >= Len(found_products)
          /\ \A i \in 1..Len(found_products) :
               found_products'[i] = found_products[i]]_vars
    /\ [](\A i, j \in 1..Len(found_products) :
            i < j => BatchOf(found_products[i]) <= BatchOf(found_products[j]))

C5_ThreeBatches ==
    /\ Len(queries) = 4
    /\ \E i, j, k \in 1..Len(found_products) :
         /\ i < j /\ j < k
         /\ BatchOf(found_products[i]) = 2
         /\ BatchOf(found_products[j]) = 3
         /\ BatchOf(found_products[k]) = 4

(***************************************************************************)
(* Arithmetic on the fixed-point values.                                   *)
(***************************************************************************)
\* round(a / b) to the nearest integer, halves up.
RoundDiv(a, b) == (2 * a + b) \div (2 * b)

Abs(x) == IF x < 0 THEN 0 - x ELSE x

RECURSIVE SqrtSearch(_, _, _)
SqrtSearch(n, lo, hi) ==
    IF lo >= hi THEN lo
    ELSE LET mid == (lo + hi + 1) \div 2
         IN IF mid * mid <= n THEN SqrtSearch(n, mid, hi)
            ELSE SqrtSearch(n, lo, mid - 1)

\* The integer part of n ** 0.5.
ISqrt(n) == SqrtSearch(n, 0, 46340)

RECURSIVE SumSeq(_)
SumSeq(s) == IF s = <<>> THEN 0 ELSE Head(s) + SumSeq(Tail(s))

Range(s) == {s[k] : k \in 1..Len(s)}

MaxOf(S) == CHOOSE x \in S : \A y \in S : y <= x

MinOf(S) == CHOOSE x \in S : \A y \in S : x <= y

\* sorted(list, key=...): a stable sort of a list of object references by
\* the integer key[ref], ascending.
StableSort(list, key) ==
    LET n == Len(list)
        rank == [i \in 1..n |->
                    Cardinality({j \in 1..n :
                        \/ key[list[j]] < key[list[i]]
                        \/ key[list[j]] = key[list[i]] /\ j < i}) + 1]
    IN [p \in 1..n |-> list[CHOOSE i \in 1..n : rank[i] = p]]

(***************************************************************************)
(* Listing records and the Product objects made from them.                 *)
(*                                                                         *)
(* Product.py declares the price field as listing_price while              *)
(* ItemProcessor and ItemCalculator read and write it as total_price; the  *)
(* two names are one field here, total_price.                              *)
(***************************************************************************)
\* A listing summary with an amount and a currency, and one without a price.
Priced(title, value, ship) ==
    [title |-> title,
     price |-> [value |-> value, currency |-> "GBP"],
     shippingOptions |-> <<[shippingCost |-> [value |-> ship, currency |-> "GBP"]]>>]

NoPrice(title, ship) ==
    [title |-> title,
     shippingOptions |-> <<[shippingCost |-> [value |-> ship, currency |-> "GBP"]]>>]

NoCurrency(title, value) ==
    [title |-> title, price |-> [value |-> value]]

\* The kinds of listing the marketplace returns here.  The last one carries
\* the tags of the relax_both batch of a search that started with New.
ListingKinds ==
    {Priced("exact", 1000, 0), Priced("close", 800, 300),
     Priced("drift", 1200, 0), Priced("half", 600, 200),
     NoPrice("weak", 0), NoCurrency("faint", 900),
     Put(Put(Priced("close", 500, 0), "acc_penalty", 20), "price_penalty", 10)}

\* What ProductProcessor.process multiplies a product's starting
\* accuracy_score by, in percent, when the listing with this title is scored
\* against the item itself (first entry) and against each of the four
\* filtered copies of the item.
MatchPercent ==
    [exact |-> <<100, 100, 100, 100, 100>>,
     close |-> <<90, 90, 90, 90, 90>>,
     drift |-> <<80, 92, 60, 60, 60>>,
     half  |-> <<70, 50, 40, 40, 40>>,
     weak  |-> <<12, 12, 12, 12, 12>>,
     faint |-> <<3, 3, 3, 3, 3>>]

\* CurrencyConverter.convert: an amount in GBP is handed back as it is; all
\* listings here are in GBP.
Convert(amount, currency) == amount

\* ItemProcessor.create_product for the item (view 0) or its filtered copy
\* number view, including the score ProductProcessor.process leaves.
create_product(view, found_product) ==
    LET acc_penalty == Get(found_product, "acc_penalty", 0)
        price_penalty == Get(found_product, "price_penalty", 0)
        price_d == Get(found_product, "price", <<>>)
        raw == Get(price_d, "value", 0)
        value == IF raw # 0 THEN RoundDiv(raw * (100 - price_penalty), 100) ELSE 0
        currency == Get(price_d, "currency", "")
        price == IF value # 0 /\ currency # "" THEN Convert(value, currency) ELSE 0
        ship_l == Get(found_product, "shippingOptions", <<>>)
        ship_d == IF ship_l # <<>> THEN Get(ship_l[1], "shippingCost", <<>>) ELSE <<>>
        postage_value == Get(ship_d, "value", 0)
        postage_currency == Get(ship_d, "currency", "")
        postage_price == IF postage_value # 0 /\ postage_currency # ""
                         THEN Convert(postage_value, postage_currency) ELSE 0
        start == (100 - acc_penalty) * 100
    IN [name |-> found_product.title,
        web_url |-> Get(found_product, "itemWebUrl", 0),
        total_price |-> price + postage_price,
        buy_price |-> price,
        postage_price |-> postage_price,
        accuracy_score |->
            RoundDiv(start * MatchPercent[found_product.title][view + 1], 100)]

(***************************************************************************)
(* Items.  An item is held with the Product objects it refers to: objs is  *)
(* the list of those objects (the temporary products of the walk           *)
(* included) and products, like every other list of products, is a list of *)
(* positions in objs, so that two lists can share one object.              *)
(***************************************************************************)
\* A newly constructed Item (the defaults of the dataclass).
NewItem(measurements, quantity) ==
    [measurements |-> measurements,
     quantity |-> quantity,
     accuracy_score |-> 10000,
     products |-> <<>>,
     objs |-> <<>>,
     total_price |-> 0,
     sell_price |-> 0,
     buyer_protection_fee |-> 0,
     postage_price |-> 0,
     price_quality |-> 0,
     num_products |-> 0]

AccuracyKey(objs) == [p \in DOMAIN objs |-> 0 - objs[p].accuracy_score]

PriceKey(objs) == [p \in DOMAIN objs |-> objs[p].total_price]

\* ItemProcessor.initialize_products on the item (view 0) or on its
\* filtered copy number view: one new Product per record, appended, then
\* the list is sorted by accuracy_score, highest first.
initialize_products(it, view, pool) ==
    LET n == Len(it.objs)
        objs == it.objs \o [k \in 1..Len(pool) |-> create_product(view, pool[k])]
        products == it.products \o [k \in 1..Len(pool) |-> n + k]
    IN [it EXCEPT !.objs = objs,
                  !.products = StableSort(products, AccuracyKey(objs))]

\* The accuracy_score values of an item's products, in list order.
ScoresOf(it) == [k \in 1..Len(it.products) |-> it.objs[it.products[k]].accuracy_score]

\* ItemProcessor.create_accuracy.
create_accuracy(score, it) ==
    StableSort(SelectSeq(it.products,
                         LAMBDA p : it.objs[p].accuracy_score >= score * 100),
               PriceKey(it.objs))

\* accuracy_nums of set_item_info: 90, 85, ..., 0.
accuracy_nums == [k \in 1..19 |-> 95 - 5 * k]

CHEAPNESS_AGGRESSION == 4
PRODUCTS_BELOW_MULTIPLIER == 80
WORKING_ACC_MINIMUM_LENGTH == 8
RICH_MINIMUM_LENGTH == 6
LOW_SCORE == 30

\* The root of a ratio num / den, in thousandths.
RootRatio(num, den) == ISqrt(((num * 100000) \div den) * 10)

\* ItemCalculator.calculate_price_and_score90.
calculate_price_and_score90(it, accuracy90) ==
    LET objs == it.objs
        n == Len(accuracy90)
        accs == [k \in 1..n |-> objs[accuracy90[k]].accuracy_score]
        closest_price == objs[accuracy90[1]].total_price
        postage_prices == SelectSeq([k \in 1..n |-> objs[accuracy90[k]].postage_price],
                                    LAMBDA x : x > 0)
        estimated_postage_price ==
            IF postage_prices # <<>>
            THEN RoundDiv(SumSeq(postage_prices), Len(postage_prices)) ELSE 0
        mx == MaxOf(Range(accs))
        mn == MinOf(Range(accs))
        floor_mn == IF mn > 100 THEN mn ELSE 100
        accuracy_score == RoundDiv(SumSeq(accs) * RootRatio(mx, floor_mn), n * 1000)
    IN [it EXCEPT !.sell_price = closest_price,
                  !.accuracy_score = accuracy_score,
                  !.postage_price = estimated_postage_price,
                  !.num_products = n]

\* ItemCalculator.adjust_accuracy_for_diffs: the mean accuracy of the
\* working set times (min / max) ** 0.5, the exponent that
\* STANDARDIZE_STRENGTH = 50 gives.
adjust_accuracy_for_diffs(accs) ==
    LET mx0 == IF accs = <<>> THEN 100 ELSE MaxOf(Range(accs))
        mn0 == IF accs = <<>> THEN 100 ELSE MinOf(Range(accs))
        min_accuracy == IF mn0 = 0 THEN 100 ELSE mn0
        max_accuracy == IF mx0 = 0 THEN 100 ELSE mx0
    IN IF accs = <<>> THEN 0
       ELSE RoundDiv(SumSeq(accs) * RootRatio(min_accuracy, max_accuracy),
                     Len(accs) * 1000)

\* ItemCalculator.set_item_attributes; hands back the item and the working
\* list, which it sorts in place.
set_item_attributes(it, working_accuracy) ==
    LET Fix(p, avg_postage_price) ==
            LET postage == IF p.postage_price = 0 THEN avg_postage_price
                           ELSE p.postage_price
            IN [p EXCEPT !.postage_price = postage,
                         !.buy_price = p.total_price - postage,
                         !.total_price = (p.total_price - postage) + postage]
        Derived(working, avg_postage_price, fixed) ==
            [it |-> [it EXCEPT
                        !.objs = fixed,
                        !.sell_price =
                            IF working # <<>>
                            THEN fixed[working[(Len(working) \div CHEAPNESS_AGGRESSION) + 1]].buy_price
                            ELSE 0,
                        !.accuracy_score =
                            adjust_accuracy_for_diffs(
                                [k \in 1..Len(working) |-> fixed[working[k]].accuracy_score]),
                        !.postage_price = avg_postage_price],
             working |-> working]
        Imputed(working, avg_postage_price) ==
            Derived(working, avg_postage_price,
                    [p \in DOMAIN it.objs |->
                        IF p \in Range(working) \cup Range(it.products)
                        THEN Fix(it.objs[p], avg_postage_price) ELSE it.objs[p]])
        Quantile(postage_prices) ==
            IF postage_prices # <<>>
            THEN postage_prices[(Len(postage_prices) \div CHEAPNESS_AGGRESSION) + 1]
            ELSE 0
        Sorted(working) ==
            Imputed(working,
                    Quantile(SelectSeq([k \in 1..Len(working) |->
                                           it.objs[working[k]].postage_price],
                                       LAMBDA x : x > 0)))
    IN Sorted(StableSort(working_accuracy, PriceKey(it.objs)))

\* The element a "median" of calculate_price_and_score picks from a list:
\* the one at index (len // 2) - 1, from 0, or the only one, or none (0).
MedianOf(list) ==
    IF Len(list) > 1 THEN list[Len(list) \div 2]
    ELSE IF Len(list) = 1 THEN list[1] ELSE 0

\* The temporary product of calculate_price_and_score; median is the
\* product picked from products_below.
temp_product(objs, median, accuracy_above, score) ==
    LET na == Len(accuracy_above)
        products_below_prices_median ==
            IF median = 0 THEN 0 ELSE objs[median].total_price
        products_below_postage_prices_median ==
            IF median = 0 THEN 0 ELSE objs[median].postage_price
        price_above_mean ==
            RoundDiv(SumSeq([k \in 1..na |-> objs[accuracy_above[k]].total_price
                                              + objs[accuracy_above[k]].postage_price]),
                     na)
    IN [name |-> "temp",
        web_url |-> 0,
        total_price |->
            IF na > 0
            THEN products_below_prices_median
                 + RoundDiv(Abs(products_below_prices_median - price_above_mean), 2)
            ELSE products_below_prices_median,
        buy_price |-> 0,
        postage_price |->
            IF na > 0 THEN 0 ELSE products_below_postage_prices_median,
        accuracy_score |-> score * 100]

\* ItemCalculator.calculate_price_and_score; hands back the item and the
\* working list, which it extends in place.
calculate_price_and_score(it0, accuracy_above, working_accuracy, score) ==
    LET it == [it0 EXCEPT !.num_products = Len(working_accuracy)]
        Decide(it1, working) ==
            IF Len(working) >= WORKING_ACC_MINIMUM_LENGTH \/ score = 0
            THEN set_item_attributes(it1, working)
            ELSE [it |-> [it1 EXCEPT !.sell_price = 0,
                                     !.accuracy_score = 0,
                                     !.postage_price = 0,
                                     !.num_products = 0],
                  working |-> working]
        Entered(products_below) ==
            IF products_below = <<>> /\ score # 0
            THEN [it |-> it, working |-> working_accuracy]
            ELSE Decide([it EXCEPT !.objs =
                            Append(it.objs,
                                   temp_product(it.objs, MedianOf(products_below),
                                                accuracy_above, score))],
                        working_accuracy \o accuracy_above \o accuracy_above
                            \o <<Len(it.objs) + 1>>)
    IN IF accuracy_above # <<>> \/ score <= LOW_SCORE
       THEN Entered(StableSort(SelectSeq(it.products,
                                   LAMBDA p : it.objs[p].accuracy_score >
                                                score * PRODUCTS_BELOW_MULTIPLIER),
                               PriceKey(it.objs)))
       ELSE Decide(it, working_accuracy)

\* fee_schedule with the rate of the second tier taken on the whole price.
fee_schedule_gross(p) ==
    IF p <= 2000 THEN 1000 + 7 * p
    ELSE IF p <= 30000 THEN 15000 + 4 * p
    ELSE IF p <= 400000 THEN 127000 + 2 * (p - 30000)
    ELSE 867000

\* The schedule of calculate_buyer_protection_fee (lines 265-272) before
\* the rounding, in hundredths of a penny, for a sell_price of p pence.
fee_schedule(p) ==
    IF p <= 2000 THEN 1000 + 7 * p
    ELSE IF p <= 30000 THEN 15000 + 4 * (p - 2000)
    ELSE IF p <= 400000 THEN 127000 + 2 * (p - 30000)
    ELSE 867000

\* The fees round(..., 2) can leave for a sell_price of p pence: the
\* nearest penny, and for a schedule value that lies exactly between two
\* pennies either of them (the float sum lies a rounding error above or
\* below the middle, so that either neighbour can be the nearest).
fee_outcomes(p) ==
    LET Around(h) == IF h % 100 = 50 THEN {h \div 100, (h \div 100) + 1}
                     ELSE {RoundDiv(h, 100)}
    IN Around(fee_schedule(p))

\* Lines 266-275: the fee is stored and netted out of the sell price.
with_fee(it, fee) ==
    [it EXCEPT !.buyer_protection_fee = fee, !.sell_price = it.sell_price - fee]

\* ItemCalculator.calculate_buyer_protection_fee, as the aggregation uses
\* it (a value exactly between two pennies is taken to the upper one).
calculate_buyer_protection_fee(it) ==
    with_fee(it, RoundDiv(fee_schedule(it.sell_price), 100))

\* ItemCalculator.calculate_postage_price; a measurement is a pair of a
\* value, in hundredths, and a unit.
calculate_postage_price(it) ==
    IF it.postage_price > 0 THEN it
    ELSE IF Len(it.measurements) > 0
    THEN LET v == it.measurements[1][1]
             unit == it.measurements[1][2]
         IN [it EXCEPT !.postage_price =
                CASE unit = "ml" -> IF v <= 5000 THEN 155 ELSE 270
                  [] unit = "l" -> IF v <= 5 THEN 155 ELSE 270
                  [] unit = "g" -> IF v <= 10000 THEN 155
                                   ELSE IF v <= 20000 THEN 270 ELSE 329
                  [] unit = "kg" -> IF v <= 10 THEN 155
                                    ELSE IF v <= 20 THEN 270 ELSE 329
                  [] OTHER -> 155]
    ELSE [it EXCEPT !.postage_price = 170]

\* Powers with a fractional exponent, on values scaled by 10000, by
\* repeated square roots: x ** 0.1 is the product of the roots of x of
\* order 2 ** 4, 2 ** 5, 2 ** 8, 2 ** 9, 2 ** 12 and 2 ** 13, and x ** 0.2
\* the product of those of order 2 ** 3, 2 ** 4, 2 ** 7, 2 ** 8, 2 ** 11
\* and 2 ** 12.
FixSqrt(y) ==
    CASE y <= 200000 -> ISqrt(y * 10000)
      [] y <= 20000000 -> ISqrt(y * 100) * 10
      [] OTHER -> ISqrt(y) * 100

RECURSIVE NthSqrt(_, _)
NthSqrt(y, k) == IF k = 0 THEN y ELSE NthSqrt(FixSqrt(y), k - 1)

FixMul(a, b) == (a \div 10000) * b + ((a % 10000) * b) \div 10000

RootProduct(r) ==
    FixMul(FixMul(FixMul(r, NthSqrt(r, 1)),
                  FixMul(NthSqrt(r, 4), NthSqrt(r, 5))),
           FixMul(NthSqrt(r, 8), NthSqrt(r, 9)))

PowTenth(y) == RootProduct(NthSqrt(y, 4))

PowFifth(y) == RootProduct(NthSqrt(y, 3))

\* ItemCalculator.set_scores, for an item whose name_certainty is 1.0 (the
\* default), which makes certainty_penalty zero.  price_quality is scaled
\* by 10000.
set_scores(it) ==
    LET root == ISqrt(it.accuracy_score * 10000)
        accuracy_score ==
            CASE it.num_products = 1 -> RoundDiv(root * 70, 100)
              [] it.num_products = 2 -> RoundDiv(root * 85, 100)
              [] it.num_products = 3 -> RoundDiv(root * 95, 100)
              [] OTHER -> root
        ratio == (accuracy_score * 10000) \div it.total_price
    IN [it EXCEPT !.accuracy_score = accuracy_score,
                  !.price_quality = IF it.total_price > 0
                                    THEN FixMul(ratio, PowTenth(ratio)) ELSE 0]

\* set_item_info up to the choice of regime: hands back the item, the list
\* all_accuracies and whether the walk over the bands is to be run.
begin_item_info(it) ==
    LET Regime(all) ==
            IF Len(all[1]) >= RICH_MINIMUM_LENGTH
            THEN [it |-> calculate_price_and_score90(it, all[1]),
                  all |-> [all EXCEPT ![1] =
                              StableSort(all[1],
                                  [p \in DOMAIN it.objs |-> it.objs[p].accuracy_score])],
                  walk |-> FALSE]
            ELSE [it |-> it, all |-> all, walk |-> TRUE]
    IN IF it.products = <<>>
       THEN [it |-> [it EXCEPT !.accuracy_score = 0], all |-> <<>>, walk |-> FALSE]
       ELSE Regime([k \in 1..Len(accuracy_nums) |->
                       create_accuracy(accuracy_nums[k], it)])

\* Lines 280-284 of set_item_info: the fee, the postage estimate and the
\* total price of an item that got a positive sell price.
priced_item(it) ==
    LET Total(f) == [f EXCEPT !.total_price =
                        f.sell_price + f.postage_price + f.buyer_protection_fee]
    IN Total(calculate_postage_price(calculate_buyer_protection_fee(it)))

\* One pass of the loop of set_item_info, for loop variable i (from 0).
walk_step(it, all, i) ==
    LET After(r) ==
            [it |-> IF r.it.sell_price > 0 THEN priced_item(r.it) ELSE r.it,
             all |-> [all EXCEPT ![i + 2] = r.working],
             returned |-> r.it.sell_price > 0]
    IN After(calculate_price_and_score(it, all[i + 1], all[i + 2],
                                       accuracy_nums[i + 1]))

\* The number of passes of the loop: range(len(all_accuracies) - 1).
WalkLength == Len(accuracy_nums) - 1

\* The whole loop of set_item_info, from pass i on.
RECURSIVE walk(_, _, _)
walk(it, all, i) ==
    LET After(s) == IF s.returned THEN s.it ELSE walk(s.it, s.all, i + 1)
    IN IF i >= WalkLength THEN it ELSE After(walk_step(it, all, i))

\* ItemProcessor.set_item_info as one step.
set_item_info(it) ==
    LET Regime(b) == IF b.walk THEN walk(b.it, b.all, 0) ELSE b.it
    IN Regime(begin_item_info(it))

\* The length the working list all[i + 2] has after pass i at the most.
GrownLength(all, i) == Len(all[i + 2]) + 2 * Len(all[i + 1]) + 1

\* The weights of FILTERSCHEMES, times ten.
Weights == <<10, 13, 17, 30>>

\* The loop of set_average_item_info: the first num_products products of
\* the item take the weighted mean of the four filtered copies' products
\* at the same position.
average_scores(it, first, others) ==
    LET firsts == ScoresOf(first)
        mean(k) == RoundDiv(Weights[1] * firsts[k]
                            + Weights[2] * others[2][k]
                            + Weights[3] * others[3][k]
                            + Weights[4] * others[4][k],
                            Weights[1] + Weights[2] + Weights[3] + Weights[4])
        slot == [p \in DOMAIN it.objs |->
                    {k \in 1..first.num_products : it.products[k] = p}]
    IN [it EXCEPT !.objs =
           [p \in DOMAIN it.objs |->
               IF slot[p] = {} THEN it.objs[p]
               ELSE [it.objs[p] EXCEPT !.accuracy_score = mean(MaxOf(slot[p]))]]]

(***************************************************************************)
(* ItemProcessor.process after the search: the pool found_products is      *)
(* turned into products of the item and of its filtered copies, the first  *)
(* copy is aggregated, the scores are averaged into the item, the item is  *)
(* aggregated and scored.                                                  *)
(***************************************************************************)
MaxPool == 6         \* most records a pool holds here
MaxWork == 22        \* longest working list the walk is followed to

\* A pool: n1 listings of one kind followed by n2 of another, each with its
\* own itemWebUrl.
MakePool(a, n1, b, n2) ==
    [k \in 1..(n1 + n2) |-> Put(IF k <= n1 THEN a ELSE b, "itemWebUrl", k)]

Pools ==
    {MakePool(t[1], t[2], t[3], t[4]) :
        t \in {u \in ListingKinds \X (0..MaxPool) \X ListingKinds \X (0..MaxPool) :
                  u[2] + u[4] <= MaxPool}}

\* item.measurements as set_measurements leaves it: empty or one pair.
ItemMeasurements == {<<>>, <<<<5000, "ml">>>>}

\* Lines 126-133: filter_name copies the item four times, then
\* initialize_products runs on the item and on every copy.
InitializeProducts ==
    /\ UNCHANGED <<searchVars, lotVars, cleanVars, feeVars, tokenVars, accuracyVars, createVars,
                   processVars>>
    /\ i_pc = "initialize"
    /\ item' = initialize_products(item, 0, found_products)
    /\ filtered_item' = initialize_products(item, 1, found_products)
    /\ filtered_scores' =
          [v \in 2..4 |-> ScoresOf(initialize_products(item, v, found_products))]
    /\ i_pc' = "view_info"
    /\ UNCHANGED <<all_accuracies, walk_i>>

\* Line 134 for the first copy: set_item_info up to the choice of regime.
BeginViewInfo ==
    /\ UNCHANGED <<searchVars, lotVars, cleanVars, feeVars, tokenVars, accuracyVars, createVars,
                   processVars>>
    /\ i_pc = "view_info"
    /\ LET Take(b) == /\ filtered_item' = b.it
                       /\ all_accuracies' = b.all
                       /\ i_pc' = IF b.walk THEN "view_walk" ELSE "average"
       IN Take(begin_item_info(filtered_item))
    /\ walk_i' = 0
    /\ UNCHANGED <<item, filtered_scores>>

\* One pass of the loop of set_item_info on the first copy.
WalkView ==
    /\ UNCHANGED <<searchVars, lotVars, cleanVars, feeVars, tokenVars, accuracyVars, createVars,
                   processVars>>
    /\ i_pc = "view_walk"
    /\ GrownLength(all_accuracies, walk_i) <= MaxWork
    /\ LET Take(s) == /\ filtered_item' = s.it
                       /\ all_accuracies' = s.all
                       /\ i_pc' = IF s.returned \/ walk_i + 1 >= WalkLength
                                  THEN "average" ELSE "view_walk"
       IN Take(walk_step(filtered_item, all_accuracies, walk_i))
    /\ walk_i' = walk_i + 1
    /\ UNCHANGED <<item, filtered_scores>>

\* Line 137 up to the call of set_item_info: the averaging loop.
SetAverageItemInfo ==
    /\ UNCHANGED <<searchVars, lotVars, cleanVars, feeVars, tokenVars, accuracyVars, createVars,
                   processVars>>
    /\ i_pc = "average"
    /\ item' = average_scores(item, filtered_item, filtered_scores)
    /\ i_pc' = "item_info"
    /\ all_accuracies' = <<>>
    /\ walk_i' = 0
    /\ UNCHANGED <<filtered_item, filtered_scores>>

\* Line 167: set_item_info on the item, up to the choice of regime.
BeginItemInfo ==
    /\ UNCHANGED <<searchVars, lotVars, cleanVars, feeVars, tokenVars, accuracyVars, createVars,
                   processVars>>
    /\ i_pc = "item_info"
    /\ LET Take(b) == /\ item' = b.it
                       /\ all_accuracies' = b.all
                       /\ i_pc' = IF b.walk THEN "item_walk" ELSE "scores"
       IN Take(begin_item_info(item))
    /\ walk_i' = 0
    /\ UNCHANGED <<filtered_item, filtered_scores>>

\* One pass of the loop of set_item_info on the item.
WalkItem ==
    /\ UNCHANGED <<searchVars, lotVars, cleanVars, feeVars, tokenVars, accuracyVars, createVars,
                   processVars>>
    /\ i_pc = "item_walk"
    /\ GrownLength(all_accuracies, walk_i) <= MaxWork
    /\ LET Take(s) == /\ item' = s.it
                       /\ all_accuracies' = s.all
                       /\ i_pc' = IF s.returned \/ walk_i + 1 >= WalkLength
                                  THEN "scores" ELSE "item_walk"
       IN Take(walk_step(item, all_accuracies, walk_i))
    /\ walk_i' = walk_i + 1
    /\ UNCHANGED <<filtered_item, filtered_scores>>

\* Line 140: calc.set_scores(item); process returns.
SetScores ==
    /\ UNCHANGED <<searchVars, lotVars, cleanVars, feeVars, tokenVars, accuracyVars, createVars,
                   processVars>>
    /\ i_pc = "scores"
    /\ item' = set_scores(item)
    /\ i_pc' = "done"
    /\ UNCHANGED <<filtered_item, filtered_scores, all_accuracies, walk_i>>

SearchOff ==
    /\ s_pc = "normalize"
    /\ params = <<>>
    /\ original_params = <<>>
    /\ penalty = 0
    /\ queries = <<>>

ItemInit ==
    /\ SearchOff
    /\ LotOff
    /\ CleanOff
    /\ FeeOff
    /\ TokenOff
    /\ AccuracyOff
    /\ CreateOff
    /\ ProcessOff
    /\ found_products \in Pools
    /\ i_pc = "initialize"
    /\ item \in {NewItem(m, 1) : m \in ItemMeasurements}
    /\ filtered_item = <<>>
    /\ filtered_scores = <<>>
    /\ all_accuracies = <<>>
    /\ walk_i = 0

ItemNext ==
    \/ InitializeProducts
    \/ BeginViewInfo
    \/ WalkView
    \/ SetAverageItemInfo
    \/ BeginItemInfo
    \/ WalkItem
    \/ SetScores

SpecItem == ItemInit /\ [][ItemNext]_vars

(***************************************************************************)
(* Claims about the aggregation (checked under SpecItem).                  *)
(***************************************************************************)
\* The item whose products the lists of all_accuracies refer to.
WalkTarget == IF i_pc \in {"view_walk", "average"} THEN filtered_item ELSE item

\* A listing record with a price amount and a currency code.
HasPrice(r) ==
    /\ "price" \in DOMAIN r
    /\ {"value", "currency"} \subseteq DOMAIN r.price

ScoresInRange(it) ==
    \A p \in Range(it.products) :
        it.objs[p].accuracy_score >= 0 /\ it.objs[p].accuracy_score <= 10000

ViewScore(view, web_url) ==
    create_product(view, found_products[web_url]).accuracy_score

RealAbove(t) ==
    {p \in Range(WalkTarget.products) :
        /\ WalkTarget.objs[p].name # "temp"
        /\ WalkTarget.objs[p].accuracy_score >= t * 100}

ExactListing(r) ==
    Put(Put(r, "title", "exact"), "price", [value |-> 1000, currency |-> "GBP"])

\* C23: whenever the relax_country step fires, every record of its batch
\* carries a confidence penalty of 0.1 and a price penalty of 0.1, so that
\* the candidate create_product builds from it starts with confidence 90
\* and has its listing price reduced by 10%.
C23_CountryPenalised ==
    [][(s_pc = "relax_country" /\ Len(queries') > Len(queries)) =>
         \A i \in (Len(found_products) + 1)..Len(found_products') :
            LET r == found_products'[i]
                built == create_product(0, ExactListing(r))
            IN /\ Get(r, "acc_penalty", 0) = 10
               /\ Get(r, "price_penalty", 0) = 10
               /\ built.accuracy_score = 9000
               /\ built.buy_price = 900]_vars

\* The relax_country step has fired and its batch is in the pool.
C23_CountryBatch ==
    /\ Len(queries) >= 2
    /\ queries[2].step = "relax_country"
    /\ \E i \in 1..Len(found_products) : BatchOf(found_products[i]) = 2

\* A fixed catalogue says of each listing whether it is in GB and whether
\* it is new; a listing satisfies a query when it passes the country
\* filters the params hold and has the condition the params name.
FixedCatalogues == [1..NumListings -> [gb : BOOLEAN, new : BOOLEAN]]

Satisfying(catalogue, p) ==
    {i \in 1..NumListings :
        /\ ("deliveryCountry" \in DOMAIN p \/ "itemLocationCountry" \in DOMAIN p)
               => catalogue[i].gb
        /\ IsNewCondition(p.conditions) => catalogue[i].new
        /\ IsUsedCondition(p.conditions) => ~catalogue[i].new}

\* The itemIds of the n-th answer, read off the pool.
AnswerIds(n) == {found_products[i].itemId :
                    i \in {j \in 1..Len(found_products) : BatchOf(found_products[j]) = n}}

AnswerLen(n) ==
    Cardinality({j \in 1..Len(found_products) : BatchOf(found_products[j]) = n})

Answered == IF s_pc = "raised" THEN Len(queries) - 1 ELSE Len(queries)

\* Every answer so far is the listings of one catalogue that satisfy the
\* query, each once.
FromFixedCatalogue ==
    \E catalogue \in FixedCatalogues :
        \A n \in 1..Answered :
            /\ AnswerIds(n) = Satisfying(catalogue, queries[n].params)
            /\ AnswerLen(n) = Cardinality(AnswerIds(n))

\* C28: when the marketplace answers every query from one fixed catalogue,
\* the accumulated pool never holds the same listing more than once.
C28_PoolIsDistinct ==
    FromFixedCatalogue =>
        \A i, j \in 1..Len(found_products) :
            i # j => found_products[i].itemId # found_products[j].itemId

\* A widened query has been answered from a fixed catalogue and the pool
\* holds a listing.
C28_WidenedFromCatalogue ==
    /\ FromFixedCatalogue
    /\ Answered >= 2
    /\ Len(found_products) >= 1

(***************************************************************************)
(* LotProcessor.process (src/LotProcessor.py lines 76-159).                *)
(*                                                                         *)
(* The per-item call item_processor.process(item, params) is one step: it *)
(* either raises at its first marketplace request (get_items raises on    *)
(* every answer other than 200, and neither ItemProcessor.process nor     *)
(* LotProcessor.process catches it), or it runs through the pool the      *)
(* marketplace holds for the item's name.  Titles are matched by the      *)
(* table MatchPercent, in every call alike.  price_quality, total_score   *)
(* and the powers are scaled by 10000; the rating is held in hundredths.  *)
(***************************************************************************)
MaxLotPool == 3      \* most records the marketplace holds for one item here
MaxCalls == 2        \* how often process is called on one lot here

\* The temporary products of set_item_info are referenced by its local
\* lists only: when it returns, the item holds its products and no more.
release_temps(it) ==
    [it EXCEPT !.objs = [k \in 1..Len(it.products) |-> it.objs[it.products[k]]],
               !.products = [k \in 1..Len(it.products) |-> k]]

\* ItemProcessor.process from line 126 on, for an item that may hold
\* products already: filter_name copies the item as it is, then
\* initialize_products appends the pool to the item and to every copy.
process_item(it, pool) ==
    LET Score(first) ==
            set_scores(set_item_info(
                average_scores(initialize_products(it, 0, pool), first,
                    [v \in 2..4 |-> ScoresOf(initialize_products(it, v, pool))])))
    IN release_temps(Score(set_item_info(initialize_products(it, 1, pool))))

\* A JobLot as constructed (the defaults of the dataclass).  The field
\* buy_listing_price is held as <<x>> for a number x and as <<>> for None.
NewJobLot(items, buy_listing_price) ==
    [condition |-> "New",
     items |-> items,
     buy_listing_price |-> buy_listing_price,
     sell_price |-> 0,
     postage_price |-> 0,
     profit |-> 0,
     accuracy_score |-> 0,
     rating |-> 0]

\* Line 107: sorted(jobLot.items, key=price_quality, reverse=True).
sort_items(items) ==
    LET Place(order) == [k \in 1..Len(items) |-> items[order[k]]]
    IN Place(StableSort([k \in 1..Len(items) |-> k],
                        [k \in 1..Len(items) |-> 0 - items[k].price_quality]))

\* Lines 109-114.
ZeroTotals ==
    [total_accuracy_score |-> 0,
     total_sell_price |-> 0,
     total_postage_price |-> 0,
     total_other_fees |-> 0,
     total_score |-> 0,
     num_items |-> 0]

\* Lines 129-134.
accumulate(t, it) ==
    [total_accuracy_score |-> t.total_accuracy_score + it.accuracy_score * it.quantity,
     total_sell_price |-> t.total_sell_price + it.sell_price * it.quantity,
     total_postage_price |-> t.total_postage_price + it.postage_price * it.quantity,
     total_other_fees |-> t.total_other_fees + it.buyer_protection_fee * it.quantity,
     total_score |-> t.total_score + it.price_quality * it.quantity,
     num_items |-> t.num_items + it.quantity]

\* x ** 1.2 for an amount of pence, scaled by 10000.
PowSixFifths(pence) == FixMul(pence * 100, PowFifth(pence * 100))

\* lot_rating with the factor n of line 152 left out of the result.
lot_rating_unsigned(total_score, profit) ==
    LET Magnitude(power) ==
            RoundDiv(RoundDiv(total_score, 100) * RoundDiv(power, 100), 100)
    IN CASE profit = 0 -> 0
         [] profit < 0 -> Magnitude(PowSixFifths(0 - profit))
         [] OTHER -> Magnitude(PowSixFifths(profit))

\* Lines 148-152: the rating, in hundredths, from total_score and profit.
lot_rating(total_score, profit) ==
    LET Magnitude(power) ==
            RoundDiv(RoundDiv(total_score, 100) * RoundDiv(power, 100), 100)
    IN CASE profit = 0 -> 0
         [] profit < 0 -> 0 - Magnitude(PowSixFifths(0 - profit))
         [] OTHER -> Magnitude(PowSixFifths(profit))

\* Lines 141-142: total_score, scaled by num_items ** .1.
normalized_score(t) ==
    IF t.num_items > 0
    THEN FixMul(t.total_score, PowTenth(t.num_items * 10000))
    ELSE t.total_score

\* Line 145: the profit, 0 for a lot whose buy_listing_price is None.
lot_profit(lot, t) ==
    IF Len(lot.buy_listing_price) = 0 THEN 0
    ELSE t.total_sell_price - lot.buy_listing_price[1]

\* Lines 136-155.
lot_rollup(lot, t) ==
    LET Rated(total_score, profit) ==
            [Put(lot, "listing_price",
                 t.total_sell_price + t.total_postage_price + t.total_other_fees)
               EXCEPT !.sell_price = t.total_sell_price,
                      !.postage_price = t.total_postage_price,
                      !.profit = profit,
                      !.rating = lot_rating(total_score, profit),
                      !.accuracy_score =
                          IF t.num_items # 0
                          THEN RoundDiv(t.total_accuracy_score, t.num_items) ELSE 0]
    IN Rated(normalized_score(t), lot_profit(lot, t))

\* What a call of process leaves behind, per item name: the candidate list
\* and the derived fields of every item, and the lot-level fields.
LotView(lot) ==
    [items |-> {[it EXCEPT !.objs = <<>>,
                           !.products = [k \in 1..Len(it.products) |->
                                            it.objs[it.products[k]]]] :
                   it \in Range(lot.items)},
     sell_price |-> lot.sell_price,
     postage_price |-> lot.postage_price,
     profit |-> lot.profit,
     accuracy_score |-> lot.accuracy_score,
     rating |-> lot.rating]

\* Lines 107-114: the items are sorted and the sums start at zero.
LotSort ==
    /\ UNCHANGED <<searchVars, itemVars, cleanVars, feeVars, tokenVars, accuracyVars, createVars,
                   processVars>>
    /\ l_pc = "start"
    /\ jobLot' = [jobLot EXCEPT !.items = sort_items(jobLot.items)]
    /\ totals' = ZeroTotals
    /\ l_i' = 0
    /\ l_pc' = IF Len(jobLot.items) > 0 THEN "item" ELSE "rollup"
    /\ UNCHANGED <<market, calls, first_result, l_failed>>

\* Lines 117-134, one iteration: the per-item call returns.
LotItem ==
    /\ UNCHANGED <<searchVars, itemVars, cleanVars, feeVars, tokenVars, accuracyVars, createVars,
                   processVars>>
    /\ l_pc = "item"
    /\ LET Take(it) == /\ jobLot' = [jobLot EXCEPT !.items[l_i + 1] = it]
                        /\ totals' = accumulate(totals, it)
       IN Take(process_item(jobLot.items[l_i + 1],
                            market[jobLot.items[l_i + 1].name]))
    /\ l_i' = l_i + 1
    /\ l_pc' = IF l_i + 1 < Len(jobLot.items) THEN "item" ELSE "rollup"
    /\ UNCHANGED <<market, calls, first_result, l_failed>>

\* Line 126 when the marketplace request of the per-item call fails: the
\* exception of get_items leaves ItemProcessor.process before the item is
\* touched, and leaves LotProcessor.process as well.
LotItemRaises ==
    /\ UNCHANGED <<searchVars, itemVars, cleanVars, feeVars, tokenVars, accuracyVars, createVars,
                   processVars>>
    /\ l_pc = "item"
    /\ l_pc' = "raised"
    /\ l_failed' = l_failed \cup {jobLot.items[l_i + 1].name}
    /\ UNCHANGED <<jobLot, l_i, totals, market, calls, first_result>>

\* Lines 136-159: the lot-level fields; process returns.
LotRollup ==
    /\ UNCHANGED <<searchVars, itemVars, cleanVars, feeVars, tokenVars, accuracyVars, createVars,
                   processVars>>
    /\ l_pc = "rollup"
    /\ LET Take(lot) == /\ jobLot' = lot
                         /\ first_result' = IF calls = 0 THEN LotView(lot)
                                            ELSE first_result
       IN Take(lot_rollup(jobLot, totals))
    /\ calls' = calls + 1
    /\ l_pc' = "done"
    /\ UNCHANGED <<l_i, totals, market, l_failed>>

\* The caller calls process on the same lot once more.
LotAgain ==
    /\ UNCHANGED <<searchVars, itemVars, cleanVars, feeVars, tokenVars, accuracyVars, createVars,
                   processVars>>
    /\ l_pc = "done"
    /\ calls < MaxCalls
    /\ l_pc' = "start"
    /\ UNCHANGED <<jobLot, l_i, totals, market, calls, first_result, l_failed>>

\* The pools of the lot part: up to MaxLotPool listings of one kind.
LotPools == {MakePool(a, n, a, 0) : a \in ListingKinds, n \in 0..MaxLotPool}

\* The lots: one item "a", or "a" and twice "b"; bought for nothing or for
\* 15.00, or the price is not known.
LotItems ==
    {<<Put(NewItem(<<>>, 1), "name", "a")>>,
     <<Put(NewItem(<<>>, 1), "name", "a"), Put(NewItem(<<>>, 2), "name", "b")>>}

LotBuyPrices == {<<>>, <<0>>, <<1500>>}

LotInit ==
    /\ SearchOff
    /\ found_products = <<>>
    /\ ItemOff
    /\ CleanOff
    /\ FeeOff
    /\ TokenOff
    /\ AccuracyOff
    /\ CreateOff
    /\ ProcessOff
    /\ l_pc = "start"
    /\ jobLot \in {NewJobLot(items, b) : items \in LotItems, b \in LotBuyPrices}
    /\ market \in [{it.name : it \in Range(jobLot.items)} -> LotPools]
    /\ l_i = 0
    /\ totals = ZeroTotals
    /\ calls = 0
    /\ first_result = <<>>
    /\ l_failed = {}

LotNext ==
    \/ LotSort
    \/ LotItem
    \/ LotItemRaises
    \/ LotRollup
    \/ LotAgain

SpecLot == LotInit /\ [][LotNext]_vars

(***************************************************************************)
(* Claims about the lot (checked under SpecLot).                           *)
(***************************************************************************)
\* C6: when the per-item call of one item of the lot raises, process goes
\* on with the next item (or with the lot-level fields after the last one)
\* and the failed item adds nothing to the sums.
C6_FailureContained ==
    [][l_failed' # l_failed =>
          /\ l_pc' \in {"item", "rollup"}
          /\ l_i' = l_i + 1
          /\ totals' = totals]_vars

\* An item's call has raised while another item of the lot was still to come.
C6_SiblingPending ==
    /\ l_pc = "raised"
    /\ l_failed # {}
    /\ l_i + 1 < Len(jobLot.items)

WeightedSum(items, F(_)) ==
    LET Upto[k \in 0..Len(items)] ==
            IF k = 0 THEN 0 ELSE Upto[k - 1] + F(items[k]) * items[k].quantity
    IN Upto[Len(items)]

Alphabet ==
    <<"a", "b", "c", "d", "e", "f", "g", "h", "i", "j", "k", "l", "m">> \o
    <<"n", "o", "p", "q", "r", "s", "t", "u", "v", "w", "x", "y", "z">>

Capitals ==
    <<"A", "B", "C", "D", "E", "F", "G", "H", "I", "J", "K", "L", "M">> \o
    <<"N", "O", "P", "Q", "R", "S", "T", "U", "V", "W", "X", "Y", "Z">>

DigitChars == <<"0", "1", "2", "3", "4", "5", "6", "7", "8", "9">>

IsDigit(c) == c \in Range(DigitChars)

IsLetter(c) == c \in Range(Alphabet) \cup Range(Capitals)

IsSpace(c) == c = " "

\* \w of the regular expressions.
IsWord(c) == IsDigit(c) \/ IsLetter(c) \/ c = "_"

LowerChar(c) ==
    IF c \in Range(Capitals)
    THEN Alphabet[CHOOSE k \in DOMAIN Capitals : Capitals[k] = c] ELSE c

\* str.lower.
lower(s) == [k \in DOMAIN s |-> LowerChar(s[k])]

\* s[a - 1:b] of Python: the characters a..b, none when b < a.
Slice(s, a, b) == [k \in 1..(IF b >= a THEN b - a + 1 ELSE 0) |-> s[a + k - 1]]

\* str.strip, str.rstrip for blanks.
rstrip(s) ==
    Slice(s, 1, MaxOf({0} \cup {k \in DOMAIN s : ~IsSpace(s[k])}))

strip(s) ==
    IF \A k \in DOMAIN s : IsSpace(s[k]) THEN <<>>
    ELSE Slice(s, MinOf({k \in DOMAIN s : ~IsSpace(s[k])}),
                  MaxOf({k \in DOMAIN s : ~IsSpace(s[k])}))

\* str.isdigit.
isdigit(s) == Len(s) > 0 /\ \A k \in DOMAIN s : IsDigit(s[k])

\* The end of the run of characters satisfying Class that starts at p
\* (p - 1 when s[p] is not in the class).
RunEnd(s, p, Class(_)) ==
    MinOf({q \in p..(Len(s) + 1) : q > Len(s) \/ ~Class(s[q])}) - 1

\* Whether the literal pat occurs in s at position p, letter case ignored.
OccursAt(s, p, pat) ==
    /\ p + Len(pat) - 1 <= Len(s)
    /\ \A k \in DOMAIN pat : LowerChar(s[p + k - 1]) = LowerChar(pat[k])

\* re.sub(re.escape(pat), repl, s, count=1, flags=re.IGNORECASE).
sub_first(pat, repl, s) ==
    LET At(hits) ==
            IF hits = {} THEN s
            ELSE Slice(s, 1, MinOf(hits) - 1) \o repl
                 \o Slice(s, MinOf(hits) + Len(pat), Len(s))
    IN At({p \in DOMAIN s : OccursAt(s, p, pat)})

\* re.sub(re.escape(pat), repl, s, flags=re.IGNORECASE): every occurrence,
\* left to right, without overlap.
RECURSIVE SubFrom(_, _, _, _)
SubFrom(pat, repl, s, p) ==
    IF p > Len(s) THEN <<>>
    ELSE IF OccursAt(s, p, pat) THEN repl \o SubFrom(pat, repl, s, p + Len(pat))
    ELSE <<s[p]>> \o SubFrom(pat, repl, s, p + 1)

sub_all(pat, repl, s) == SubFrom(pat, repl, s, 1)

\* The str of None, as an f-string renders it.
NoneStr == <<"N", "o", "n", "e">>

(***************************************************************************)
(* TokenSet.tokenize_variant_name (src/TokenSet.py lines 31-63).           *)
(***************************************************************************)
\* Where the token of the pattern
\*   \d+(?:\.\d+)?\s*|[^\W\d_]+\s*|[^\w\s]\s*
\* that starts at p ends, 0 when none starts there.
WithBlanks(s, e) == RunEnd(s, e + 1, IsSpace)

NumberEnd(s, e) ==
    IF e + 2 <= Len(s) /\ s[e + 1] = "." /\ IsDigit(s[e + 2])
    THEN RunEnd(s, e + 2, IsDigit) ELSE e

TokenEnd(s, p) ==
    CASE IsDigit(s[p]) -> WithBlanks(s, NumberEnd(s, RunEnd(s, p, IsDigit)))
      [] IsLetter(s[p]) -> WithBlanks(s, RunEnd(s, p, IsLetter))
      [] ~IsWord(s[p]) /\ ~IsSpace(s[p]) -> WithBlanks(s, p)
      [] OTHER -> 0

\* re.findall(pattern, s).
RECURSIVE TokensFrom(_, _)
TokensFrom(s, p) ==
    LET Next(e) == IF e = 0 THEN TokensFrom(s, p + 1)
                   ELSE <<Slice(s, p, e)>> \o TokensFrom(s, e + 1)
    IN IF p > Len(s) THEN <<>> ELSE Next(TokenEnd(s, p))

tokens_raw(s) == TokensFrom(s, 1)

\* Whether t reads digits, or digits "." digits.
IsNumber(t) ==
    /\ Len(t) > 0
    /\ IsDigit(t[1])
    /\ NumberEnd(t, RunEnd(t, 1, IsDigit)) = Len(t)

\* str(float(t)).rstrip("0").rstrip(".") for such a t of fewer than 16
\* digits: the integer part loses its leading zeros and the fraction its
\* trailing zeros, and the point goes with an empty fraction.
number_normalized(t) ==
    LET e == RunEnd(t, 1, IsDigit)
        Whole(d) == IF \A k \in DOMAIN d : d[k] = "0" THEN <<"0">>
                    ELSE Slice(d, MinOf({k \in DOMAIN d : d[k] # "0"}), Len(d))
        Fraction(f) == Slice(f, 1, MaxOf({0} \cup {k \in DOMAIN f : f[k] # "0"}))
        Pointed(f) == IF Len(f) = 0 THEN <<>> ELSE <<".">> \o f
    IN Whole(Slice(t, 1, e)) \o Pointed(Fraction(Slice(t, e + 2, Len(t))))

\* Lines 55-60 for one raw token; float() also reads "infinity".
token_normalized(token) ==
    LET Of(t) == CASE IsNumber(t) -> number_normalized(t)
                   [] lower(t) = <<"i", "n", "f", "i", "n", "i", "t", "y">> ->
                          <<"i", "n", "f">>
                   [] OTHER -> lower(t)
    IN Of(strip(token))

\* TokenSet(good=product): the raw and the normalized tokens of
\* product.variant_name.
TokenSet(variant_name) ==
    LET Both(raw) == [variant_name_raw |-> raw,
                      variant_name_normalized |->
                          [k \in DOMAIN raw |-> token_normalized(raw[k])]]
    IN Both(tokens_raw(variant_name))

\* int(t) for a str of digits, blanks around them allowed.
RECURSIVE IntOf(_)
IntOf(d) ==
    IF Len(d) = 0 THEN 0
    ELSE IntOf(Slice(d, 1, Len(d) - 1)) * 10
         + (CHOOSE k \in DOMAIN DigitChars : DigitChars[k] = d[Len(d)]) - 1

\* Token i of a token list, or None past either end.
TokenAt(tokens, i) == IF i \in DOMAIN tokens THEN tokens[i] ELSE NoneStr

Present(tokens, i) == i \in DOMAIN tokens

(***************************************************************************)
(* UnitConvertor (src/UnitConvertor.py).                                   *)
(***************************************************************************)
\* get_units(): the unit names in the order of the dict, each with its
\* multiplier as a fraction num / den.
UnitTable ==
    <<[name |-> <<"k", "g">>, num |-> 1000, den |-> 1],
      [name |-> <<"g">>, num |-> 1, den |-> 1],
      [name |-> <<"l", "b">>, num |-> 453592, den |-> 1000],
      [name |-> <<"f", "l", " ", "o", "z">>, num |-> 295735, den |-> 10000],
      [name |-> <<"o", "z">>, num |-> 283495, den |-> 10000],
      [name |-> <<"l">>, num |-> 1000, den |-> 1],
      [name |-> <<"m", "l">>, num |-> 1, den |-> 1],
      [name |-> <<"m">>, num |-> 1000, den |-> 1],
      [name |-> <<"c", "m">>, num |-> 10, den |-> 1],
      [name |-> <<"m", "m">>, num |-> 1, den |-> 1],
      [name |-> <<"b">>, num |-> 1, den |-> 1],
      [name |-> <<"k", "b">>, num |-> 1024, den |-> 1],
      [name |-> <<"g", "b">>, num |-> 1048576, den |-> 1],
      [name |-> <<"t", "b">>, num |-> 1073741824, den |-> 1]>>

UnitNames == {UnitTable[k].name : k \in DOMAIN UnitTable}

UnitOf(name) == UnitTable[CHOOSE k \in DOMAIN UnitTable : UnitTable[k].name = name]

\* round(convert(value, from_unit, to_unit), 2) in hundredths, for a whole
\* value and two supported units.
convert_rounded(value, from_unit, to_unit) ==
    LET Scale(f, t) == RoundDiv(100 * value * f.num * t.den, f.den * t.num)
    IN Scale(UnitOf(from_unit), UnitOf(to_unit))

(***************************************************************************)
(* ProductCleaner (src/ProductCleaner.py).  A product is a record of the  *)
(* fields the cleaner reads and writes; the loops over the tokens are     *)
(* folds over the token positions, with the local variables of the loop   *)
(* in a record.                                                            *)
(***************************************************************************)
PackWord == <<"p", "a", "c", "k">>

\* Lines 200-227 of clean_pack for token i: acc holds variant_name, divisor
\* and whether int(token_raw) has raised ValueError.
pack_step(acc, ts, i) ==
    LET raw == ts.variant_name_raw
        nor == ts.variant_name_normalized
        Whole(a) == IF isdigit(strip(raw[i])) THEN [a EXCEPT !.divisor = IntOf(strip(raw[i]))]
                    ELSE [a EXCEPT !.raised = TRUE]
        Sub(a, pat, repl) == [a EXCEPT !.variant_name = sub_first(pat, repl, a.variant_name)]
        PackOf(a) ==
            IF ~a.raised /\ Present(nor, i - 2) /\ nor[i - 2] = PackWord
               /\ nor[i - 1] = <<"o", "f">>
            THEN Whole(Sub(a, raw[i - 2] \o nor[i - 1] \o raw[i], <<" ">>))
            ELSE a
    IN IF ~isdigit(nor[i]) THEN acc
       ELSE IF Present(nor, i + 1) /\ nor[i + 1] = PackWord
               /\ Present(nor, i + 2) /\ nor[i + 2] = <<"x">>
            THEN PackOf(Sub(acc, raw[i + 1], <<" ">>))
       ELSE IF Present(nor, i + 1) /\ nor[i + 1] = PackWord
            THEN PackOf(Whole(Sub(acc, raw[i] \o raw[i + 1], <<" ">>)))
       ELSE PackOf(acc)

\* A loop "for i, token in enumerate(tokens)" that ends early when an
\* exception is raised.
RECURSIVE TokenLoop(_, _, _, _)
TokenLoop(Step(_, _, _), acc, ts, i) ==
    IF i > Len(ts.variant_name_normalized) \/ acc.raised THEN acc
    ELSE TokenLoop(Step, Step(acc, ts, i), ts, i + 1)

\* What a loop over the tokens leaves: the str is stripped unless the
\* loop was left by an exception.
Stripped(acc) ==
    IF acc.raised THEN acc
    ELSE [acc EXCEPT !.variant_name = strip(acc.variant_name)]

\* clean_pack: the variant_name it leaves and the divisor it returns.
clean_pack(variant_name, ts) ==
    Stripped(TokenLoop(pack_step,
                       [variant_name |-> variant_name, divisor |-> 1,
                        changed |-> FALSE, raised |-> FALSE],
                       ts, 1))

IsTimes(t) == t = <<"x">> \/ t = <<"*">>

\* Lines 256-340 of clean_x for token i.
x_step(acc, ts, i) ==
    LET raw == ts.variant_name_raw
        nor == ts.variant_name_normalized
        R(k) == TokenAt(raw, i + k)
        Has(k) == Present(nor, i + k)
        Unit(k) == Has(k) /\ nor[i + k] \in UnitNames
        Sub(a, pat, repl) == [a EXCEPT !.variant_name = sub_first(pat, repl, a.variant_name)]
        Once(a) == IF a.changed THEN a
                   ELSE [a EXCEPT !.changed = TRUE, !.divisor = IntOf(nor[i])]
        \* lines 276-288
        Equation(a) ==
            IF Has(3) /\ Has(4) /\ nor[i + 4] = <<"=">> /\ Unit(3)
            THEN IF Has(5) /\ Unit(6)
                 THEN Sub(a, R(0) \o R(1) \o R(2) \o R(3) \o R(4) \o R(5) \o R(6),
                          <<" ">> \o R(2) \o R(3) \o <<" ">>)
                 ELSE Sub(a, R(0) \o R(1) \o R(2) \o R(3) \o R(4) \o R(5),
                          <<" ">> \o R(2) \o R(3) \o <<" ">>)
            ELSE a
        \* lines 290-324
        Product(a) ==
            IF Has(3) /\ nor[i + 3] = <<"=">>
            THEN IF Unit(5)
                 THEN Sub(a, R(0) \o R(1) \o R(2) \o R(3) \o R(4) \o R(5),
                          <<" ">> \o R(2) \o <<" ">>)
                 ELSE Sub(a, R(0) \o R(1) \o R(2) \o R(3) \o R(4),
                          <<" ">> \o R(2))
            ELSE IF Has(2) /\ isdigit(nor[i + 2])
            THEN IF Unit(3)
                 THEN Sub(a, R(0) \o R(1) \o R(2) \o R(3), <<" ">>)
                 ELSE Sub(a, R(0) \o R(1) \o R(2), <<" ">>)
            ELSE Sub(a, R(0) \o R(1), <<" ">>)
        \* lines 274-329
        After(a) ==
            IF Has(1) /\ IsTimes(nor[i + 1]) THEN Once(Product(Equation(a))) ELSE a
        \* lines 332-340
        Before(a) ==
            IF Present(nor, i - 1) /\ IsTimes(nor[i - 1])
            THEN Once(Sub(a, raw[i - 1] \o raw[i], <<" ">>))
            ELSE a
    IN IF ~isdigit(nor[i]) THEN acc ELSE Before(After(acc))

\* clean_x: the variant_name it leaves and the divisor it returns.
clean_x(variant_name, ts) ==
    Stripped(TokenLoop(x_step,
                       [variant_name |-> variant_name, divisor |-> 1,
                        changed |-> FALSE, raised |-> FALSE],
                       ts, 1))

\* The float arithmetic of the cleaner, in fixed point: a real is held as
\* an integer number of 10 ** -8, and x ** e is exp(e * ln(x)) with ln and
\* exp summed from their series.  A product of two such numbers is formed
\* from their halves of four digits, which keeps every intermediate value
\* below 2 ** 31 for factors up to 4.
E4 == 10000

E8 == E4 * E4

MulE8(a, b) ==
    (a \div E4) * (b \div E4)
    + ((a \div E4) * (b % E4) + (a % E4) * (b \div E4)
       + ((a % E4) * (b % E4)) \div E4) \div E4

\* n / d for 0 <= n and 0 < d < 200000.
DivE8(n, d) ==
    (n \div d) * E8
    + (((n % d) * E4) \div d) * E4
    + ((((n % d) * E4) % d) * E4) \div d

\* z + z ** 3 / 3 + z ** 5 / 5 + ... (atanh), from the term power / n on.
RECURSIVE AtanhFrom(_, _, _)
AtanhFrom(power, square, n) ==
    IF power = 0 THEN 0
    ELSE power \div n + AtanhFrom(MulE8(power, square), square, n + 2)

Atanh(z) == AtanhFrom(z, MulE8(z, z), 1)

\* The largest k with q * 2 ** k <= p.
RECURSIVE Log2Floor(_, _)
Log2Floor(p, q) == IF 2 * q > p THEN 0 ELSE 1 + Log2Floor(p, 2 * q)

RECURSIVE TwoTo(_)
TwoTo(k) == IF k = 0 THEN 1 ELSE 2 * TwoTo(k - 1)

\* ln(p / q) for p >= q > 0: with p / q = m * 2 ** k and 1 <= m < 2,
\* ln(m) = 2 * atanh((m - 1) / (m + 1)) and ln(2) = 2 * atanh(1 / 3).
Ln(p, q) ==
    LET Reduced(k, d) ==
            k * 2 * Atanh(DivE8(1, 3)) + 2 * Atanh(DivE8(p - d, p + d))
        Halved(k) == Reduced(k, q * TwoTo(k))
    IN Halved(Log2Floor(p, q))

\* exp(t) and exp(-t) for 0 <= t: the series for t <= 1, squares above.
RECURSIVE ExpFrom(_, _, _)
ExpFrom(term, t, n) ==
    IF term = 0 THEN 0 ELSE term + ExpFrom(MulE8(term, t) \div n, t, n + 1)

RECURSIVE ExpNegFrom(_, _, _)
ExpNegFrom(term, t, n) ==
    IF term = 0 THEN 0 ELSE term - ExpNegFrom(MulE8(term, t) \div n, t, n + 1)

RECURSIVE Exp(_)
Exp(t) ==
    LET Square(h) == MulE8(h, h)
    IN IF t <= E8 THEN ExpFrom(E8, t, 1) ELSE Square(Exp(t \div 2))

RECURSIVE ExpNeg(_)
ExpNeg(t) ==
    LET Square(h) == MulE8(h, h)
    IN IF t <= E8 THEN ExpNegFrom(E8, t, 1) ELSE Square(ExpNeg(t \div 2))

\* e * ln(p / q) for an exponent e of num hundredths.
Exponent(p, q, num) ==
    LET Times(l) == (l \div 100) * num + ((l % 100) * num) \div 100
    IN Times(Ln(p, q))

\* round(amount * factor), for a factor in 10 ** -8 and a whole amount.
Scaled(amount, factor) ==
    RoundDiv(amount * (factor \div E4) + (amount * (factor % E4)) \div E4, E4)

\* round(amount / divisor ** 0.96, 2) in pence, for a whole divisor > 1:
\* the quotient is amount * divisor ** 0.04 / divisor.
per_unit(amount, divisor) ==
    LET Over(factor) ==
            RoundDiv(amount * (factor \div E4) + (amount * (factor % E4)) \div E4,
                     divisor * E4)
    IN Over(Exp(Exponent(divisor, 1, 4)))

\* exp(t) in 10 ** -4 for a t whose exp(t) is too large for 10 ** -8.
RECURSIVE ExpWide(_)
ExpWide(t) ==
    LET Square(h) == FixMul(h, h)
    IN IF t <= 2 * E8 THEN RoundDiv(Exp(t), E4) ELSE Square(ExpWide(t \div 2))

\* round(accuracy_score * (1 - weight * (p / q) ** 0.6), 2), the weight in
\* hundredths, for p >= q > 0.
degraded(accuracy_score, weight, p, q) ==
    LET Power(t) ==
            IF t <= 2 * E8
            THEN Scaled(accuracy_score, E8 - (Exp(t) \div 100) * weight)
            ELSE RoundDiv(accuracy_score
                            * (E4 - RoundDiv(weight * ExpWide(t), 100)), E4)
    IN Power(Exponent(p, q, 60))

\* The 2.7 of line 159, in pence.
ASSUMED_POSTAGE == 270

\* adjust_quantities with the price divided a second time by the same
\* power of the divisor.
adjust_quantities_twice(product) ==
    LET Rescaled(divisor, p) ==
            LET Each(listing_price) ==
                    [p EXCEPT !.listing_price = listing_price,
                              !.buy_price = listing_price - p.postage_price,
                              !.accuracy_score =
                                  degraded(p.accuracy_score, 3, divisor, 1)]
            IN IF divisor <= 1 THEN p
               ELSE IF p.postage_price > 0
               THEN Each(per_unit(per_unit(p.listing_price - p.postage_price, divisor),
                              divisor))
               ELSE Each(per_unit(per_unit(p.listing_price - ASSUMED_POSTAGE, divisor),
                              divisor))
        Named(a) == [product EXCEPT !.variant_name = a.variant_name]
        Times(pack, x) ==
            [product |-> Rescaled(MaxOf({pack.divisor, x.divisor}),
                                Named(Stripped(x))),
             raised |-> FALSE]
        Pack(ts, pack) ==
            IF pack.raised THEN [product |-> Named(pack), raised |-> TRUE]
            ELSE Times(pack, clean_x(pack.variant_name, ts))
        Tokens(ts) == Pack(ts, clean_pack(product.variant_name, ts))
    IN Tokens(TokenSet(product.variant_name))

\* ProductCleaner.adjust_quantities: the product it leaves and whether it
\* raised (int() of a token such as "4.0").
adjust_quantities(product) ==
    LET Rescaled(divisor, p) ==
            LET Each(listing_price) ==
                    [p EXCEPT !.listing_price = listing_price,
                              !.buy_price = listing_price - p.postage_price,
                              !.accuracy_score =
                                  degraded(p.accuracy_score, 3, divisor, 1)]
            IN IF divisor <= 1 THEN p
               ELSE IF p.postage_price > 0
               THEN Each(per_unit(p.listing_price - p.postage_price, divisor))
               ELSE Each(per_unit(p.listing_price - ASSUMED_POSTAGE, divisor))
        Named(a) == [product EXCEPT !.variant_name = a.variant_name]
        Times(pack, x) ==
            [product |-> Rescaled(MaxOf({pack.divisor, x.divisor}),
                                Named(Stripped(x))),
             raised |-> FALSE]
        Pack(ts, pack) ==
            IF pack.raised THEN [product |-> Named(pack), raised |-> TRUE]
            ELSE Times(pack, clean_x(pack.variant_name, ts))
        Tokens(ts) == Pack(ts, clean_pack(product.variant_name, ts))
    IN Tokens(TokenSet(product.variant_name))

\* str(n) for a whole n >= 0.
RECURSIVE DigitsOf(_)
DigitsOf(n) ==
    IF n < 10 THEN <<DigitChars[n + 1]>>
    ELSE DigitsOf(n \div 10) \o <<DigitChars[(n % 10) + 1]>>

\* str(x) for a float x >= 0 of h hundredths: "50.0", "12.5", "0.25".
FormatFloat(h) ==
    DigitsOf(h \div 100) \o <<".">>
    \o (IF h % 10 = 0 THEN DigitsOf((h % 100) \div 10)
        ELSE DigitsOf((h % 100) \div 10) \o DigitsOf(h % 10))

\* round(amount * exp(t)) for 0 <= t.
times_exp(amount, t) ==
    IF t <= 2 * E8 THEN Scaled(amount, Exp(t))
    ELSE RoundDiv(amount * ExpWide(t), E4)

\* Lines 362-384 of convert_product_units for token i: acc holds
\* variant_name, units_index, the list item_units and whether convert has
\* raised ValueError (a unit of the item that get_units does not hold).
units_step(acc, ts, i) ==
    LET raw == ts.variant_name_raw
        nor == ts.variant_name_normalized
        Sub(repl) == [acc EXCEPT !.variant_name =
                         sub_all(raw[i] \o raw[i + 1], repl, acc.variant_name)]
        To(unit) ==
            IF unit \notin UnitNames THEN [acc EXCEPT !.raised = TRUE]
            ELSE [Sub(FormatFloat(convert_rounded(IntOf(nor[i]), nor[i + 1], unit))
                      \o unit)
                    EXCEPT !.units_index = acc.units_index + 1]
    IN IF ~(isdigit(nor[i]) /\ Present(nor, i + 1) /\ nor[i + 1] \in UnitNames)
       THEN acc
       ELSE IF acc.units_index >= Len(acc.item_units) THEN Sub(<<" ">>)
       ELSE To(acc.item_units[acc.units_index + 1])

\* convert_product_units: the variant_name it leaves.
convert_product_units(variant_name, ts, item_units) ==
    Stripped(TokenLoop(units_step,
                       [variant_name |-> variant_name, units_index |-> 0,
                        item_units |-> item_units, raised |-> FALSE],
                       ts, 1))

\* Lines 407-446 of convert_values for token i: acc holds the product, the
\* lists item_units and item_values, and whether a division by zero raised.
\* A measurement value is held in hundredths.
values_step(acc, ts, i) ==
    LET raw == ts.variant_name_raw
        nor == ts.variant_name_normalized
        product == acc.product
        \* lines 424-428 for divisor = p / q
        Price(p, q) ==
            CASE p = q -> product.listing_price
              [] p > q -> Scaled(product.listing_price, ExpNeg(Exponent(p, q, 59)))
              [] OTHER -> times_exp(product.listing_price, Exponent(q, p, 59))
        \* lines 431-442 for divisor = p / q >= 1
        Accuracy(p, q) ==
            CASE p = q -> product.accuracy_score
              [] p >= 30 * q -> 0
              [] OTHER -> degraded(product.accuracy_score, 13, p, q)
        Reconciled(token, after, value, item_value) ==
            IF item_value = 0 \/ value = 0
            THEN [acc EXCEPT !.raised = TRUE,
                             !.product.variant_name =
                                 IF item_value = 0 THEN product.variant_name
                                 ELSE sub_all(token \o after,
                                              FormatFloat(item_value) \o after,
                                              product.variant_name)]
            ELSE [acc EXCEPT
                    !.product.variant_name =
                        sub_all(token \o after, FormatFloat(item_value) \o after,
                                product.variant_name),
                    !.product.listing_price = Price(100 * value, item_value),
                    !.product.accuracy_score =
                        IF 100 * value >= item_value
                        THEN Accuracy(100 * value, item_value)
                        ELSE Accuracy(item_value, 100 * value),
                    !.item_units = Tail(acc.item_units),
                    !.item_values = Tail(acc.item_values)]
    IN IF isdigit(nor[i]) /\ Len(acc.item_units) > 0 /\ Present(raw, i + 1)
          /\ lower(strip(raw[i + 1])) \in Range(acc.item_units)
       THEN Reconciled(lower(strip(raw[i])), lower(strip(raw[i + 1])),
                       IntOf(nor[i]), acc.item_values[1])
       ELSE acc

\* convert_values: the product it leaves.
convert_values(product, ts, item_units, item_values) ==
    TokenLoop(values_step,
              [product |-> product, item_units |-> item_units,
               item_values |-> item_values, raised |-> FALSE],
              ts, 1)

\* ProductCleaner.adjust_measurements: the product it leaves, whether it
\* raised and what: the ValueError of convert in convert_product_units or
\* the ZeroDivisionError of a division in convert_values.
adjust_measurements(product, item_units, item_values) ==
    LET Reconciled(v) ==
            [product |-> v.product, item_units |-> v.item_units,
             item_values |-> v.item_values, raised |-> v.raised,
             error |-> IF v.raised THEN "ZeroDivisionError" ELSE ""]
        Values(ts, units) ==
            IF units.raised
            THEN [product |-> [product EXCEPT !.variant_name = units.variant_name],
                  item_units |-> item_units, item_values |-> item_values,
                  raised |-> TRUE, error |-> "ValueError"]
            ELSE Reconciled(
                     convert_values([product EXCEPT
                                         !.variant_name = units.variant_name],
                                    ts, item_units, item_values))
        Tokens(ts) ==
            Values(ts, convert_product_units(product.variant_name, ts, item_units))
    IN Tokens(TokenSet(product.variant_name))

\* Whether position p of s is a word boundary (\b): one of the characters
\* before and at p is a word character and the other is not.
Boundary(s, p) ==
    (p - 1 \in DOMAIN s /\ IsWord(s[p - 1])) # (p \in DOMAIN s /\ IsWord(s[p]))

\* re.sub(rf'\b{re.escape(pat)}\b', '', s, flags=re.IGNORECASE).
RECURSIVE DropWordFrom(_, _, _)
DropWordFrom(pat, s, p) ==
    IF p > Len(s) THEN <<>>
    ELSE IF Len(pat) > 0 /\ OccursAt(s, p, pat) /\ Boundary(s, p)
            /\ Boundary(s, p + Len(pat))
    THEN DropWordFrom(pat, s, p + Len(pat))
    ELSE <<s[p]>> \o DropWordFrom(pat, s, p + 1)

\* x in s for two strs.
Contains(s, x) == Len(x) = 0 \/ \E p \in DOMAIN s : OccursAt(s, p, x)

\* f"{a} {b}".strip().
Joined(a, b) == strip(a \o <<" ">> \o b)

Unset(s, placeholder) == Len(s) = 0 \/ s = placeholder

\* ProductCleaner.set_name.
set_name(product, it) ==
    LET variant_name ==
            IF Unset(product.variant_name, <<"v", "a", "r", "i", "a", "n", "t">>)
            THEN product.name ELSE product.variant_name
        Named(brand_name, variant) ==
            [product EXCEPT !.brand_name = brand_name,
                            !.variant_name = variant,
                            !.name = Joined(brand_name, variant),
                            !.original_brand_name = brand_name,
                            !.original_variant_name = variant]
    IN IF ~Unset(product.brand_name, <<"b", "r", "a", "n", "d">>)
       THEN Named(product.brand_name, variant_name)
       ELSE IF Len(it.brand_name) > 0
               /\ Contains(lower(product.name), lower(it.brand_name))
       THEN Named(it.brand_name,
                  strip(DropWordFrom(it.brand_name, product.name, 1)))
       ELSE Named(<<>>, variant_name)

(***************************************************************************)
(* GoodCleaner.clean_basic (src/GoodCleaner.py lines 129-219).             *)
(***************************************************************************)
\* removal_terms: the alternatives in their order; "s+" and "s*" stand for
\* \s+ and \s*, every other element for that character.
removal_terms ==
    <<<<"n", "e", "w">>, <<"b", "r", "a", "n", "d">>,
      <<"s", "e", "a", "l", "e", "d">>,
      <<"c", "l", "e", "a", "r", "a", "n", "c", "e">>,
      <<"u", "n", "u", "s", "e", "d">>, <<"b", "y">>,
      <<"f", "r", "e", "e", "s+", "p", "o", "s", "t", "a", "g", "e">>,
      <<"f", "r", "e", "e", "s+", "d", "e", "l", "i", "v", "e", "r", "y">>,
      <<"n", "e", "w", "s*", "&", "s*", "u", "n", "u", "s", "e", "d">>,
      <<"n", "e", "w", "/", "u", "n", "u", "s", "e", "d">>,
      <<"u", "p", "d", "a", "t", "e", "d">>,
      <<"d", "i", "s", "c", "o", "n", "t", "i", "n", "u", "e", "d">>,
      <<"d", "i", "s", "c", "o", "u", "n", "t", "e", "d">>,
      <<"d", "e", "l", "i", "v", "e", "r", "y">>,
      <<"f", "r", "e", "e", "s+", "s", "h", "i", "p", "p", "i", "n", "g">>,
      <<"w", "o", "r", "l", "d", "w", "i", "d", "e">>,
      <<"f", "r", "e", "e", "s+", "s", "h", "i", "p", "p", "i", "n", "g", "s+", "t", "o">>,
      <<"u", "k">>, <<"w", "o", "r", "l", "d", "w", "i", "d", "e">>,
      <<"g", "l", "o", "b", "a", "l">>,
      <<"i", "n", "t", "e", "r", "n", "a", "t", "i", "o", "n", "a", "l">>,
      <<"l", "o", "c", "a", "l">>,
      <<"o", "r", "i", "g", "i", "n", "a", "l">>,
      <<"a", "u", "t", "h", "e", "n", "t", "i", "c">>,
      <<"g", "e", "n", "u", "i", "n", "e">>,
      <<"o", "f", "f", "i", "c", "i", "a", "l">>,
      <<"l", "i", "m", "i", "t", "e", "d", "s+", "e", "d", "i", "t", "i", "o", "n">>,
      <<"c", "o", "l", "l", "e", "c", "t", "i", "b", "l", "e">>,
      <<"v", "i", "n", "t", "a", "g", "e">>, <<"r", "a", "r", "e">>,
      <<"o", "n", "e", "s+", "o", "f", "s+", "a", "s+", "k", "i", "n", "d">>,
      <<"s", "e", "l", "l", "e", "r">>, <<"u", "n", "i", "q", "u", "e">>,
      <<"l", "o", "t">>, <<"j", "o", "b", "s+", "l", "o", "t">>,
      <<"b", "u", "l", "k">>,
      <<"w", "h", "o", "l", "e", "s", "a", "l", "e">>,
      <<"c", "l", "e", "a", "r", "a", "n", "c", "e">>,
      <<"j", "o", "b", "s+", "l", "o", "t", "s+", "o", "f">>,
      <<"j", "o", "b", "s+", "l", "o", "t", "s">>,
      <<"j", "o", "b", "s+", "l", "o", "t", "s+", "o", "f", "s+", "g", "o", "o", "d", "s">>,
      <<"j", "o", "b", "s+", "l", "o", "t", "s+", "o", "f", "s+", "p", "r", "o", "d", "u", "c", "t", "s">>,
      <<"j", "o", "b", "s+", "l", "o", "t", "s+", "o", "f", "s+", "p", "r", "o", "d", "u", "c", "t", "s", "s+", "a", "n", "d", "s+", "g", "o", "o", "d", "s">>,
      <<"f", "o", "r", "s+", "s", "a", "l", "e">>,
      <<"f", "o", "r", "s+", "a", "u", "c", "t", "i", "o", "n">>,
      <<"f", "o", "r", "s+", "b", "i", "d">>,
      <<"f", "o", "r", "s+", "p", "u", "r", "c", "h", "a", "s", "e">>,
      <<"f", "o", "r", "s+", "b", "u", "y">>,
      <<"f", "o", "r", "s+", "b", "u", "y", "i", "n", "g">>,
      <<"f", "o", "r", "s+", "s", "e", "l", "l", "i", "n", "g">>,
      <<"f", "o", "r", "s+", "r", "e", "s", "a", "l", "e">>,
      <<"f", "o", "r", "s+", "w", "h", "o", "l", "e", "s", "a", "l", "e">>,
      <<"f", "o", "r", "s+", "r", "e", "t", "a", "i", "l">>,
      <<"f", "o", "r", "s+", "d", "i", "s", "t", "r", "i", "b", "u", "t", "i", "o", "n">>,
      <<"f", "o", "r", "s+", "c", "o", "l", "l", "e", "c", "t", "i", "o", "n">>,
      <<"f", "o", "r", "s+", "d", "e", "l", "i", "v", "e", "r", "y">>,
      <<"f", "o", "r", "s+", "s", "h", "i", "p", "p", "i", "n", "g">>,
      <<"f", "r", "e", "e", "s+", "p", "o", "s", "t">>,
      <<"f", "r", "e", "e", "s+", "s", "h", "i", "p">>,
      <<"f", "r", "e", "e", "s+", "s", "h", "i", "p", "p">>,
      <<"v", "e", "g", "a", "n">>,
      <<"c", "r", "u", "e", "l", "t", "y", " ", "f", "r", "e", "e">>,
      <<"e", "c", "o", " ", "f", "r", "i", "e", "n", "d", "l", "y">>,
      <<"e", "u", "r", "o">>,
      <<"p", "a", "c", "k", "a", "g", "i", "n", "g">>,
      <<"b", "i", "o", "d", "e", "g", "r", "a", "d", "a", "b", "l", "e">>,
      <<"p", "a", "c", "k", "a", "g", "i", "n", "g">>,
      <<"p", "l", "a", "s", "t", "i", "c", " ", "f", "r", "e", "e">>,
      <<"r", "e", "c", "y", "c", "l", "a", "b", "l", "e">>,
      <<"s", "u", "s", "t", "a", "i", "n", "a", "b", "l", "e">>,
      <<"o", "r", "g", "a", "n", "i", "c">>,
      <<"n", "a", "t", "u", "r", "a", "l">>,
      <<"n", "e", "w", "s+", "w", "i", "t", "h", "s+", "t", "a", "g", "s">>,
      <<"n", "e", "w", "s+", "w", "i", "t", "h", "s+", "b", "o", "x">>,
      <<"n", "e", "w", "s+", "i", "n", "s+", "b", "o", "x">>,
      <<"n", "e", "w", "s+", "i", "n", "s+", "p", "a", "c", "k", "a", "g", "i", "n", "g">>,
      <<"n", "e", "w", "s+", "i", "n", "s+", "p", "a", "c", "k", "a", "g", "e">>,
      <<"n", "e", "w", "s+", "i", "n", "s+", "o", "r", "i", "g", "i", "n", "a", "l", "s+", "p", "a", "c", "k", "a", "g", "i", "n", "g">>,
      <<"n", "e", "w", "s+", "i", "n", "s+", "o", "r", "i", "g", "i", "n", "a", "l", "s+", "p", "a", "c", "k", "a", "g", "e">>,
      <<"n", "e", "w", "s+", "w", "i", "t", "h", "s+", "o", "r", "i", "g", "i", "n", "a", "l", "s+", "p", "a", "c", "k", "a", "g", "i", "n", "g">>,
      <<"n", "e", "w", "s+", "w", "i", "t", "h", "s+", "o", "r", "i", "g", "i", "n", "a", "l", "s+", "p", "a", "c", "k", "a", "g", "e">>,
      <<"n", "e", "w", "s+", "i", "n", "s+", "s", "e", "a", "l", "e", "d", "s+", "p", "a", "c", "k", "a", "g", "i", "n", "g">>,
      <<"n", "e", "w", "s+", "i", "n", "s+", "s", "e", "a", "l", "e", "d", "s+", "p", "a", "c", "k", "a", "g", "e">>,
      <<"n", "e", "w", "s+", "w", "i", "t", "h", "s+", "s", "e", "a", "l", "e", "d", "s+", "p", "a", "c", "k", "a", "g", "i", "n", "g">>,
      <<"n", "e", "w", "s+", "w", "i", "t", "h", "s+", "s", "e", "a", "l", "e", "d", "s+", "p", "a", "c", "k", "a", "g", "e">>,
      <<"n", "e", "w", "s+", "i", "n", "s+", "p", "l", "a", "s", "t", "i", "c", "s+", "p", "a", "c", "k", "a", "g", "i", "n", "g">>,
      <<"n", "e", "w", "s+", "i", "n", "s+", "p", "l", "a", "s", "t", "i", "c", "s+", "p", "a", "c", "k", "a", "g", "e">>,
      <<"n", "e", "w", "s+", "w", "i", "t", "h", "s+", "p", "l", "a", "s", "t", "i", "c", "s+", "p", "a", "c", "k", "a", "g", "i", "n", "g">>,
      <<"n", "e", "w", "s+", "w", "i", "t", "h", "s+", "p", "l", "a", "s", "t", "i", "c", "s+", "p", "a", "c", "k", "a", "g", "e">>,
      <<"n", "e", "w", "s+", "i", "n", "s+", "c", "e", "l", "l", "o", "p", "h", "a", "n", "e">>,
      <<"n", "e", "w", "s+", "w", "i", "t", "h", "s+", "c", "e", "l", "l", "o", "p", "h", "a", "n", "e">>,
      <<"n", "e", "w", "s+", "i", "n", "s+", "w", "r", "a", "p">>,
      <<"n", "e", "w", "s+", "w", "i", "t", "h", "s+", "w", "r", "a", "p">>,
      <<"n", "e", "w", "s+", "i", "n", "s+", "w", "r", "a", "p", "p", "e", "r">>,
      <<"n", "e", "w", "s+", "w", "i", "t", "h", "s+", "w", "r", "a", "p", "p", "e", "r">>,
      <<"n", "e", "w", "s+", "i", "n", "s+", "s", "e", "a", "l", "e", "d", "s+", "w", "r", "a", "p">>,
      <<"n", "e", "w", "s+", "w", "i", "t", "h", "s+", "s", "e", "a", "l", "e", "d", "s+", "w", "r", "a", "p">>,
      <<"n", "e", "v", "e", "r", "s+", "u", "s", "e", "d">>,
      <<"n", "e", "v", "e", "r", "s+", "o", "p", "e", "n", "e", "d">>,
      <<"n", "e", "v", "e", "r", "s+", "b", "e", "e", "n", "s+", "u", "s", "e", "d">>,
      <<"n", "e", "v", "e", "r", "s+", "b", "e", "e", "n", "s+", "o", "p", "e", "n", "e", "d">>,
      <<"n", "e", "v", "e", "r", "s+", "b", "e", "e", "n", "s+", "u", "s", "e", "d", "s+", "o", "r", "s+", "o", "p", "e", "n", "e", "d">>>>

\* Where term, from its element k on, ends when matched at position p of s
\* (letter case ignored); -1 when it does not match.
RECURSIVE TermEnd(_, _, _, _)
TermEnd(s, p, term, k) ==
    CASE k > Len(term) -> p - 1
      [] term[k] = "s*" -> TermEnd(s, RunEnd(s, p, IsSpace) + 1, term, k + 1)
      [] term[k] = "s+" ->
            IF p <= Len(s) /\ IsSpace(s[p])
            THEN TermEnd(s, RunEnd(s, p, IsSpace) + 1, term, k + 1) ELSE -1
      [] OTHER ->
            IF p <= Len(s) /\ LowerChar(s[p]) = LowerChar(term[k])
            THEN TermEnd(s, p + 1, term, k + 1) ELSE -1

\* re.sub(self.removal_terms, '', s, flags=re.IGNORECASE): at every
\* position the first alternative that matches is taken.
RECURSIVE RemoveTermsFrom(_, _)
RemoveTermsFrom(s, p) ==
    LET Cut(hits) ==
            IF hits = {} THEN <<s[p]>> \o RemoveTermsFrom(s, p + 1)
            ELSE RemoveTermsFrom(s, TermEnd(s, p, removal_terms[MinOf(hits)], 1) + 1)
    IN IF p > Len(s) THEN <<>>
       ELSE Cut({k \in DOMAIN removal_terms :
                    TermEnd(s, p, removal_terms[k], 1) >= p})

remove_terms(s) == RemoveTermsFrom(s, 1)

\* re.sub of a class of single characters by a blank.
Blanked(s, Class(_)) == [k \in DOMAIN s |-> IF Class(s[k]) THEN " " ELSE s[k]]

\* [-_] of line 159 and [^a-zA-Z0-9.=\-&\s] of line 170.
IsSeparator(c) == c \in {"-", "_"}

IsSpecial(c) == ~(IsLetter(c) \/ IsDigit(c) \/ IsSpace(c) \/ c \in {".", "=", "-", "&"})

IsDot(c) == c = "."

\* Line 173: re.sub(r'^\.+|\.+$', '', s).
trim_dots(s) ==
    LET Tail_(t) == IF Len(t) > 0 /\ IsDot(t[Len(t)])
                    THEN Slice(t, 1, MaxOf({0} \cup {k \in DOMAIN t : ~IsDot(t[k])}))
                    ELSE t
    IN Tail_(Slice(s, RunEnd(s, 1, IsDot) + 1, Len(s)))

\* Line 174: re.sub(r'\.(?!\d)', ' ', s).
blank_dots(s) ==
    [k \in DOMAIN s |->
        IF IsDot(s[k]) /\ ~(k + 1 \in DOMAIN s /\ IsDigit(s[k + 1]))
        THEN " " ELSE s[k]]

\* Line 178: re.findall(r'\d+(?:\.\d+)?', s).
RECURSIVE NumbersFrom(_, _)
NumbersFrom(s, p) ==
    LET Next(e) == <<Slice(s, p, e)>> \o NumbersFrom(s, e + 1)
    IN IF p > Len(s) THEN <<>>
       ELSE IF IsDigit(s[p]) THEN Next(NumberEnd(s, RunEnd(s, p, IsDigit)))
       ELSE NumbersFrom(s, p + 1)

\* '{:.2f}'.format(float(num)) for num of digits, or digits "." digits; a
\* fraction of more than two digits is rounded half up.
two_decimals(num) ==
    LET e == RunEnd(num, 1, IsDigit)
        Pad(f) == f \o <<"0", "0", "0">>
        Hundredths(whole, f) ==
            IntOf(whole) * 100 + IntOf(Slice(f, 1, 2))
            + (IF IntOf(<<f[3]>>) >= 5 THEN 1 ELSE 0)
        Shown(h) == DigitsOf(h \div 100) \o <<".">>
                    \o DigitsOf((h % 100) \div 10) \o DigitsOf(h % 10)
    IN Shown(Hundredths(Slice(num, 1, e), Pad(Slice(num, e + 2, Len(num)))))

\* Whether num, read as a regular expression ("." stands for any
\* character), matches at p between two characters that are neither a
\* digit nor a point, or the ends of s.
NumberAt(s, p, num) ==
    /\ p + Len(num) - 1 <= Len(s)
    /\ \A k \in DOMAIN num : IsDot(num[k]) \/ s[p + k - 1] = num[k]
    /\ p = 1 \/ ~(IsDigit(s[p - 1]) \/ IsDot(s[p - 1]))
    /\ p + Len(num) > Len(s)
       \/ ~(IsDigit(s[p + Len(num)]) \/ IsDot(s[p + Len(num)]))

\* Lines 182-188: one pass of the loop, for num.
format_number(s, num) ==
    LET At(hits) ==
            IF hits = {} THEN s
            ELSE Slice(s, 1, MinOf(hits) - 1) \o two_decimals(num)
                 \o Slice(s, MinOf(hits) + Len(num), Len(s))
    IN At({p \in DOMAIN s : NumberAt(s, p, num)})

RECURSIVE FormatNumbers(_, _)
FormatNumbers(s, numbers) ==
    IF Len(numbers) = 0 THEN s
    ELSE FormatNumbers(format_number(s, Head(numbers)), Tail(numbers))

format_numbers(s) == FormatNumbers(s, NumbersFrom(s, 1))

\* Line 191: re.sub(r'\.0{1,}', '', s).
IsZero(c) == c = "0"

RECURSIVE DropZerosFrom(_, _)
DropZerosFrom(s, p) ==
    IF p > Len(s) THEN <<>>
    ELSE IF IsDot(s[p]) /\ p + 1 <= Len(s) /\ IsZero(s[p + 1])
    THEN DropZerosFrom(s, RunEnd(s, p + 1, IsZero) + 1)
    ELSE <<s[p]>> \o DropZerosFrom(s, p + 1)

drop_zeros(s) == DropZerosFrom(s, 1)

\* The units whose name stands at p of s (letter case ignored) without a
\* word character after it: (unit)(?!\w) of line 198.
UnitsAt(s, p) ==
    {k \in DOMAIN UnitTable :
        /\ OccursAt(s, p, UnitTable[k].name)
        /\ ~(p + Len(UnitTable[k].name) \in DOMAIN s
             /\ IsWord(s[p + Len(UnitTable[k].name)]))}

\* Lines 198-203: each run of blanks that a unit follows is replaced by
\* the unit in lower case and a blank; the unit itself stays.
RECURSIVE JoinUnitsFrom(_, _)
JoinUnitsFrom(s, p) ==
    LET Joined_(e, units) ==
            IF units = {} THEN Slice(s, p, e) \o JoinUnitsFrom(s, e + 1)
            ELSE UnitTable[MinOf(units)].name \o <<" ">> \o JoinUnitsFrom(s, e + 1)
        Run(e) == Joined_(e, UnitsAt(s, e + 1))
    IN IF p > Len(s) THEN <<>>
       ELSE IF IsSpace(s[p]) THEN Run(RunEnd(s, p, IsSpace))
       ELSE <<s[p]>> \o JoinUnitsFrom(s, p + 1)

join_units(s) == JoinUnitsFrom(s, 1)

\* Line 206: re.sub(r'rrp\s*(\d+(?:\.\d+)?)', ' ', s, flags=re.IGNORECASE).
RECURSIVE DropRrpFrom(_, _)
DropRrpFrom(s, p) ==
    LET Number(d) ==
            IF d <= Len(s) /\ IsDigit(s[d])
            THEN <<" ">> \o DropRrpFrom(s, NumberEnd(s, RunEnd(s, d, IsDigit)) + 1)
            ELSE <<s[p]>> \o DropRrpFrom(s, p + 1)
    IN IF p > Len(s) THEN <<>>
       ELSE IF OccursAt(s, p, <<"r", "r", "p">>)
       THEN Number(RunEnd(s, p + 3, IsSpace) + 1)
       ELSE <<s[p]>> \o DropRrpFrom(s, p + 1)

drop_rrp(s) == DropRrpFrom(s, 1)

\* Line 212: re.sub(r'\s+', ' ', s).strip().
RECURSIVE CollapseFrom(_, _)
CollapseFrom(s, p) ==
    IF p > Len(s) THEN <<>>
    ELSE IF IsSpace(s[p])
    THEN <<" ">> \o CollapseFrom(s, RunEnd(s, p, IsSpace) + 1)
    ELSE <<s[p]>> \o CollapseFrom(s, p + 1)

collapse(s) == strip(CollapseFrom(s, 1))

\* Lines 156-215: the cleaned variant text.
cleaned_name(variant_name) ==
    remove_terms(
      collapse(
        sub_all(<<"&">>, <<" ", "a", "n", "d", " ">>,
          drop_rrp(
            join_units(
              drop_zeros(
                format_numbers(
                  blank_dots(
                    trim_dots(
                      strip(Blanked(
                        remove_terms(Blanked(strip(variant_name), IsSeparator)),
                        IsSpecial)))))))))))

\* GoodCleaner.clean_basic.
clean_basic(product) ==
    LET Named(name) ==
            [Put(product, "original_name",
                 Joined(product.brand_name, product.variant_name))
               EXCEPT !.original_variant_name = strip(product.variant_name),
                      !.original_brand_name = strip(product.brand_name),
                      !.variant_name = name,
                      !.name = Joined(product.brand_name, name)]
    IN Named(cleaned_name(product.variant_name))

(***************************************************************************)
(* ProductCleaner.clean(item, product), as ProductProcessor.process calls *)
(* it on the Product that ItemProcessor.create_product has just built.    *)
(* create_product passes the sum of price and postage as total_price;     *)
(* the cleaner reads and writes it as listing_price.                       *)
(***************************************************************************)
MaxCleanCalls == 2   \* how often clean is called on one product here

\* The Product of create_product (lines 238-246) with the defaults of the
\* dataclass, for a listing of that title, price and postage.
NewProduct(title, price, postage, accuracy_score) ==
    [name |-> title,
     brand_name |-> <<>>,
     variant_name |-> <<"v", "a", "r", "i", "a", "n", "t">>,
     original_name |-> <<"n", "a", "m", "e">>,
     original_brand_name |-> <<"b", "r", "a", "n", "d">>,
     original_variant_name |-> <<"v", "a", "r", "i", "a", "n", "t">>,
     listing_price |-> price + postage,
     buy_price |-> price,
     postage_price |-> postage,
     accuracy_score |-> accuracy_score]

\* ProductCleaner.get_measurements: a measurement is <<value, unit>> or
\* <<value>>, the value in hundredths.
get_measurements(it) ==
    LET Whole(ms) == [k \in DOMAIN ms |-> ms[k][1]]
        Units(ms) == [k \in DOMAIN ms |-> ms[k][2]]
    IN [item_units |-> Units(SelectSeq(it.measurements, LAMBDA m : Len(m) > 1)),
        item_values |-> Whole(SelectSeq(it.measurements, LAMBDA m : Len(m) > 0))]

\* Lines 61-62.
CleanSetName ==
    /\ UNCHANGED <<searchVars, itemVars, lotVars, feeVars, tokenVars, accuracyVars, createVars,
                   processVars>>
    /\ c_pc = "set_name"
    /\ c_units' = get_measurements(c_item).item_units
    /\ c_values' = get_measurements(c_item).item_values
    /\ c_product' = set_name(c_product, c_item)
    /\ c_pc' = "quantities"
    /\ UNCHANGED <<c_item, c_created, c_calls, c_first>>

\* Line 63.
CleanAdjustQuantities ==
    /\ UNCHANGED <<searchVars, itemVars, lotVars, feeVars, tokenVars, accuracyVars, createVars,
                   processVars>>
    /\ c_pc = "quantities"
    /\ LET Take(r) == /\ c_product' = r.product
                       /\ c_pc' = IF r.raised THEN "raised" ELSE "measurements"
       IN Take(adjust_quantities(c_product))
    /\ UNCHANGED <<c_item, c_units, c_values, c_created, c_calls, c_first>>

\* Line 64; convert_values pops from the two local lists.  c_pc tells a
\* ZeroDivisionError from the other exceptions that end clean.
CleanAdjustMeasurements ==
    /\ UNCHANGED <<searchVars, itemVars, lotVars, feeVars, tokenVars, accuracyVars, createVars,
                   processVars>>
    /\ c_pc = "measurements"
    /\ LET Take(r) == /\ c_product' = r.product
                       /\ c_units' = r.item_units
                       /\ c_values' = r.item_values
                       /\ c_pc' = IF ~r.raised THEN "basic"
                                  ELSE IF r.error = "ZeroDivisionError"
                                  THEN "zero_division" ELSE "raised"
       IN Take(adjust_measurements(c_product, c_units, c_values))
    /\ UNCHANGED <<c_item, c_created, c_calls, c_first>>

\* Line 65; clean returns.
CleanBasic ==
    /\ UNCHANGED <<searchVars, itemVars, lotVars, feeVars, tokenVars, accuracyVars, createVars,
                   processVars>>
    /\ c_pc = "basic"
    /\ c_product' = clean_basic(c_product)
    /\ c_pc' = "done"
    /\ c_calls' = c_calls + 1
    /\ c_first' = IF c_calls = 0 THEN c_product' ELSE c_first
    /\ UNCHANGED <<c_item, c_units, c_values, c_created>>

\* The caller calls clean on the same product and item once more.
CleanAgain ==
    /\ UNCHANGED <<searchVars, itemVars, lotVars, feeVars, tokenVars, accuracyVars, createVars,
                   processVars>>
    /\ c_pc = "done"
    /\ c_calls < MaxCleanCalls
    /\ c_pc' = "set_name"
    /\ UNCHANGED <<c_product, c_item, c_units, c_values, c_created, c_calls, c_first>>

\* The listings and items of the cleaning part.
CleanTitles ==
    {<<"A", "b", " ", "B", "u", "t", "t", "e", "r", " ", "5", "0", "m", "l">>,
     <<"A", "b", " ", "B", "u", "t", "t", "e", "r", " ", "1", "0", "0", "m", "l">>,
     <<"B", "u", "t", "t", "e", "r", " ", "4", " ", "x", " ", "5", "0", "m", "l">>,
     <<"B", "u", "t", "t", "e", "r", " ", "2", " ", "X", " ", "5", "0", " ", "m", "l">>,
     <<"6", " ", "p", "a", "c", "k", " ", "B", "u", "t", "t", "e", "r", " ", "5", "0", "m", "l">>,
     <<"p", "a", "c", "k", " ", "o", "f", " ", "2", " ", "c", "r", "e", "a", "m">>,
     <<"B", "u", "t", "t", "e", "r", " ", "2", "5", " ", "M", "L", " ", "n", "e", "w">>,
     <<"c", "r", "e", "a", "m", " ", "4", ".", "0", " ", "p", "a", "c", "k">>,
     <<"B", "u", "t", "t", "e", "r", " ", "1", "l">>,
     <<"c", "r", "e", "a", "m", " ", "3", "0", "g">>,
     <<"B", "u", "t", "t", "e", "r", " ", "0", "m", "l">>,
     <<"s", "o", "a", "p", " ", "&", " ", "c", "o", " ", "1", "0", ".", "5", " ", "g">>,
     <<"B", "u", "t", "t", "e", "r", " ", "5", "0", " ", "m", "l", " ", "3", "0", " ", "g">>,
     <<"A", "b", " ", "B", "u", "t", "t", "e", "r">>,
     <<"s", "o", "a", "p", " ", "&", " ", "c", "o">>,
     <<"A", "b">>}

CleanPrices == {1000, 2599}

CleanPostages == {0, 299}

CleanScores == {10000, 9000}

CleanBrands == {<<>>, <<"A", "b">>}

CleanMeasurements ==
    {<<>>,
     <<<<5000, <<"m", "l">>>>>>,
     <<<<10000, <<"m", "l">>>>>>,
     <<<<5000, <<"m", "l">>>>, <<3000, <<"g">>>>>>}

CleanInit ==
    /\ SearchOff
    /\ found_products = <<>>
    /\ ItemOff
    /\ LotOff
    /\ FeeOff
    /\ TokenOff
    /\ AccuracyOff
    /\ CreateOff
    /\ ProcessOff
    /\ c_pc = "set_name"
    /\ c_created \in {NewProduct(t, p, q, a) :
                         t \in CleanTitles, p \in CleanPrices,
                         q \in CleanPostages, a \in CleanScores}
    /\ c_product = c_created
    /\ c_item \in {[brand_name |-> b, measurements |-> m] :
                      b \in CleanBrands, m \in CleanMeasurements}
    /\ c_units = <<>>
    /\ c_values = <<>>
    /\ c_calls = 0
    /\ c_first = <<>>

CleanNext ==
    \/ CleanSetName
    \/ CleanAdjustQuantities
    \/ CleanAdjustMeasurements
    \/ CleanBasic
    \/ CleanAgain

SpecClean == CleanInit /\ [][CleanNext]_vars

(***************************************************************************)
(* Claims about the cleaner (checked under SpecClean).                     *)
(***************************************************************************)
\* C1: when clean has returned, the product's listing price is its
\* buy_price plus its postage_price, to within a penny.
C1_TotalIsBuyPlusPostage ==
    c_pc = "done" =>
        Abs(c_product.listing_price
            - (c_product.buy_price + c_product.postage_price)) <= 1

\* clean has returned after it changed the listing price.
C1_PriceAdjusted ==
    /\ c_pc = "done"
    /\ c_product.listing_price # c_created.listing_price

\* A text without a digit: it holds no pack count, no multiplier and no
\* number with a unit.
PlainText(s) == \A k \in DOMAIN s : ~IsDigit(s[k])

\* C15: a second call of clean on a product whose variant_name, as the
\* first call left it, holds no pack, multiplier or number-unit pattern
\* changes no field of the product.
C15_SecondCleanNoOp ==
    (c_pc = "done" /\ c_calls = 2 /\ PlainText(c_first.variant_name)) =>
        c_product = c_first

\* The second call has returned for a product with a plain variant_name.
C15_SecondCleanDone ==
    /\ c_pc = "done"
    /\ c_calls = 2
    /\ Len(c_first.variant_name) > 0
    /\ PlainText(c_first.variant_name)

\* The N of a title of CleanTitles that reads "<N> x <size><unit>", 0 for
\* the other titles.
TimesOf(title) ==
    IF title = <<"B", "u", "t", "t", "e", "r", " ", "4", " ", "x", " ", "5", "0", "m", "l">>
    THEN 4
    ELSE IF title = <<"B", "u", "t", "t", "e", "r", " ", "2", " ", "X", " ", "5", "0", " ", "m", "l">>
    THEN 2
    ELSE 0

\* The first call of clean has passed adjust_quantities.
PastQuantities ==
    \/ c_calls = 0 /\ c_pc \in {"measurements", "basic"}
    \/ c_calls = 1 /\ c_pc = "done"

Consumed == Len(get_measurements(c_item).item_values) - Len(c_values)

\* C25: one pass of clean consumes at most one of the target's
\* measurements in convert_values, whatever the measurement list and the
\* title.
C25_AtMostOneConsumed ==
    c_pc \in {"basic", "done"} => Consumed <= 1

\* A pass over a target with two measurements has consumed one of them.
C25_OneOfTwoConsumed ==
    /\ c_pc = "basic"
    /\ Len(c_item.measurements) = 2
    /\ Consumed = 1

\* C29: convert_values never ends in a division by zero.
C29_NoZeroDivision ==
    c_pc # "zero_division"

\* convert_values has divided: the pass has reconciled the only measurement
\* of the target with a different value of the title and rescaled the price.
C29_Divided ==
    /\ c_pc = "basic"
    /\ Len(c_item.measurements) = 1
    /\ Consumed = 1
    /\ c_product.listing_price # c_created.listing_price

(***************************************************************************)
(* ItemCalculator.calculate_buyer_protection_fee on its own                *)
(* (src/ItemCalculator.py lines 252-275), for sell prices in whole pence  *)
(* of all four tiers.                                                      *)
(***************************************************************************)
MaxFeeGrid == 450    \* the sell prices reach MaxFeeGrid * 10.00 here

\* The sell prices tried: every multiple of 10.00, a penny and a quarter
\* above it, and 5.50 above it (5.50 and 15.50 give a fee of x.5 pence).
FeePrices == {1000 * k + r : k \in 0..MaxFeeGrid, r \in {0, 1, 25, 550}}

FeeInit ==
    /\ SearchOff
    /\ found_products = <<>>
    /\ ItemOff
    /\ LotOff
    /\ CleanOff
    /\ TokenOff
    /\ AccuracyOff
    /\ CreateOff
    /\ ProcessOff
    /\ f_pc = "call"
    /\ f_price \in FeePrices
    /\ f_item = [sell_price |-> f_price, buyer_protection_fee |-> 0]

\* The call of calculate_buyer_protection_fee(item).
FeeApply ==
    /\ UNCHANGED <<searchVars, itemVars, lotVars, cleanVars, tokenVars, accuracyVars, createVars,
                   processVars>>
    /\ f_pc = "call"
    /\ \E fee \in fee_outcomes(f_item.sell_price) : f_item' = with_fee(f_item, fee)
    /\ f_pc' = "done"
    /\ UNCHANGED f_price

FeeNext ==
    \/ FeeApply

SpecFee == FeeInit /\ [][FeeNext]_vars

(***************************************************************************)
(* Claims about the fee (checked under SpecFee).                           *)
(***************************************************************************)
\* The fee the schedule names for a gross sell price of p pence, in
\* hundredths of a penny: 0.10 + 7% of p up to 20, 1.50 + 4% of (p - 20)
\* up to 300, 12.70 + 2% of (p - 300) up to 4000, 86.70 above.
ScheduledFee(p) ==
    CASE p <= 2000 -> 100 * 10 + 7 * p
      [] p > 2000 /\ p <= 30000 -> 100 * 150 + 4 * (p - 2000)
      [] p > 30000 /\ p <= 400000 -> 100 * 1270 + 2 * (p - 30000)
      [] OTHER -> 100 * 8670

\* C13 as stated: the fee is the scheduled amount itself, and sell_price
\* is the gross price minus the fee.
C13_ExactSchedule ==
    f_pc = "done" =>
        /\ 100 * f_item.buyer_protection_fee = ScheduledFee(f_price)
        /\ f_item.sell_price = f_price - f_item.buyer_protection_fee

\* C13: for a gross sell price p in whole pence, the fee is the scheduled
\* amount rounded to a penny (at most half a penny away from it), and
\* sell_price is p minus that fee; p = 250.00 gives 10.70 and 239.30.
C13_RoundedSchedule ==
    f_pc = "done" =>
        /\ Abs(100 * f_item.buyer_protection_fee - ScheduledFee(f_price)) <= 50
        /\ f_item.sell_price = f_price - f_item.buyer_protection_fee
        /\ f_price = 25000 => /\ f_item.buyer_protection_fee = 1070
                              /\ f_item.sell_price = 23930

\* The fee of a gross sell price of 250.00 has been netted out.
C13_Fee250 ==
    /\ f_pc = "done"
    /\ f_price = 25000
    /\ f_item.buyer_protection_fee = 1070
    /\ f_item.sell_price = 23930

(***************************************************************************)
(* TokenSet.tokenize_variant_name on its own (src/TokenSet.py lines       *)
(* 31-63), for every text of up to MaxTokenText characters over digits,   *)
(* letters, the blank, the underscore, the point and a hyphen.            *)
(***************************************************************************)
MaxTokenText == 3    \* longest variant_name tokenized here

TokenChars == {"1", "0", "a", "B", " ", "_", ".", "-"}

TokenTexts == UNION {[1..n -> TokenChars] : n \in 0..MaxTokenText}

TokenInit ==
    /\ SearchOff
    /\ found_products = <<>>
    /\ ItemOff
    /\ LotOff
    /\ CleanOff
    /\ FeeOff
    /\ AccuracyOff
    /\ CreateOff
    /\ ProcessOff
    /\ t_pc = "call"
    /\ t_name \in TokenTexts
    /\ t_raw = <<>>
    /\ t_normalized = <<>>

\* The call of tokenize_variant_name(good).
Tokenize ==
    /\ UNCHANGED <<searchVars, itemVars, lotVars, cleanVars, feeVars, accuracyVars, createVars,
                   processVars>>
    /\ t_pc = "call"
    /\ LET Take(ts) == /\ t_raw' = ts.variant_name_raw
                        /\ t_normalized' = ts.variant_name_normalized
       IN Take(TokenSet(t_name))
    /\ t_pc' = "done"
    /\ UNCHANGED t_name

TokenNext ==
    \/ Tokenize

SpecToken == TokenInit /\ [][TokenNext]_vars

(***************************************************************************)
(* Claims about the tokenizer (checked under SpecToken).                   *)
(***************************************************************************)
\* The strs of a list, concatenated.
Concatenated(strs) ==
    LET Upto[k \in 0..Len(strs)] ==
            IF k = 0 THEN <<>> ELSE Upto[k - 1] \o strs[k]
    IN Upto[Len(strs)]

\* C16: the raw and the normalized token lists have the same length, and
\* the raw tokens concatenated are the text that was tokenized.
C16_RoundTrip ==
    t_pc = "done" =>
        /\ Len(t_raw) = Len(t_normalized)
        /\ Concatenated(t_raw) = t_name

\* A text has been split into more than one token.
C16_SeveralTokens ==
    /\ t_pc = "done"
    /\ Len(t_raw) > 1

(***************************************************************************)
(* ProductCalculator (src/ProductCalculator.py): the scoring of one        *)
(* filtered candidate against the target.  Every function of the module    *)
(* only multiplies product.accuracy_score (or sets it to 0), so the score  *)
(* is held as the list of the multipliers it has received since the call   *)
(* began, in order and in ten-thousandths as the source writes them        *)
(* (0.95 is 9500); the one assignment of 0 leaves the list <<0>>.          *)
(***************************************************************************)
EXACT_MATCH_SCORE == 10000
EXACT_CASE_INSENSITIVE_MATCH_SCORE == 9800
EXACT_INCLUSIVE_MATCH_SCORE == 8500
EXACT_INCLUSIVE_CASE_INSENSITIVE_MATCH_SCORE == 8300
EXACT_NO_SPACES_MATCH_SCORE == 9700
EXACT_INCLUSIVE_CASE_INSENSITIVE_NO_SPACES_MATCH_SCORE == 8100
EXACT_CLOSENESS_MATCH_SCORE == 7500
P90_CLOSENESS_MATCH_SCORE == 6000
P80_CLOSENESS_MATCH_SCORE == 5600
P70_CLOSENESS_MATCH_SCORE == 4100
P60_CLOSENESS_MATCH_SCORE == 3600
P50_CLOSENESS_MATCH_SCORE == 3000
P40_CLOSENESS_MATCH_SCORE == 2300
P30_CLOSENESS_MATCH_SCORE == 1500

\* x in s of two strs, letter case kept.
InStr(x, s) ==
    \E p \in 1..(Len(s) - Len(x) + 1) : Slice(s, p, p + Len(x) - 1) = x

\* any(char.isdigit() for char in s).
any_digit(s) == \E k \in DOMAIN s : IsDigit(s[k])

\* re.sub(r'[\s]+', '', s).lower().
no_spaces_lower(s) == lower(SelectSeq(s, LAMBDA c : ~IsSpace(c)))

WORD_WITH == <<"w", "i", "t", "h">>
WORD_FOR == <<"f", "o", "r">>
WORD_NO == <<"n", "o">>

\* WordFilterer.is_key_word (src/WordFilterer.py lines 160-179): whether
\* spaCy tags the word a NOUN; of the words the names below are made of,
\* the tagger gives that tag to these.
Nouns == {<<"c", "a", "s", "e">>, <<"c", "o", "v", "e", "r">>}

is_key_word(word) == Len(word) > 0 /\ word \in Nouns

\* A match of  \b\w+\s+  begun at s: where its word ends and where the
\* blanks after it end (no match: word_end 0).
WordAndBlanks(text, s) ==
    LET At(we) ==
            IF we + 1 <= Len(text) /\ IsSpace(text[we + 1])
            THEN [word_end |-> we, blanks_end |-> RunEnd(text, we + 1, IsSpace)]
            ELSE [word_end |-> 0, blanks_end |-> 0]
    IN IF /\ s \in DOMAIN text
          /\ IsWord(text[s])
          /\ (s = 1 \/ ~IsWord(text[s - 1]))
       THEN At(RunEnd(text, s, IsWord))
       ELSE [word_end |-> 0, blanks_end |-> 0]

\* Where the literal may begin after a word and its blanks: the regular
\* expression gives blanks back one at a time, keeping at least one.
LiteralAfter(text, literal, w) ==
    {p \in (w.word_end + 2)..(w.blanks_end + 1) : OccursAt(text, p, literal)}

\* The match of  ((?:\b\w+\s+){0,2}) + re.escape(literal)  that begins at s,
\* letter case ignored: two words before the literal are tried first, then
\* one, then none.  words are the \w+ of group 1, last the index of the
\* last character matched.
BeforeAt(text, literal, s) ==
    LET Hit(words, p) ==
            [found |-> TRUE, words |-> words,
             group |-> Slice(text, s, p - 1), last |-> p + Len(literal) - 1]
        Pick(w1, w2, after2, after1) ==
            IF after2 # {} THEN
                Hit(<<Slice(text, s, w1.word_end),
                      Slice(text, w1.blanks_end + 1, w2.word_end)>>, MaxOf(after2))
            ELSE IF after1 # {} THEN
                Hit(<<Slice(text, s, w1.word_end)>>, MaxOf(after1))
            ELSE IF s <= Len(text) + 1 /\ OccursAt(text, s, literal) THEN
                Hit(<<>>, s)
            ELSE [found |-> FALSE, words |-> <<>>, group |-> <<>>, last |-> 0]
        Second(w1, w2) ==
            Pick(w1, w2, LiteralAfter(text, literal, w2),
                 LiteralAfter(text, literal, w1))
        First(w1) ==
            Second(w1, WordAndBlanks(text, IF w1.word_end = 0 THEN 0
                                           ELSE w1.blanks_end + 1))
    IN First(WordAndBlanks(text, s))

\* re.search of that pattern from position from on: the leftmost match.
RECURSIVE SearchBefore(_, _, _)
SearchBefore(text, literal, from) ==
    LET Try(m) == IF m.found THEN m
                  ELSE SearchBefore(text, literal, from + 1)
    IN IF from > Len(text) + 1
       THEN [found |-> FALSE, words |-> <<>>, group |-> <<>>, last |-> 0]
       ELSE Try(BeforeAt(text, literal, from))

\* re.findall of that pattern: group 1 of every match, left to right.
RECURSIVE GroupsFrom(_, _, _)
GroupsFrom(text, literal, from) ==
    LET Rest(m) ==
            IF ~m.found THEN <<>>
            ELSE <<m.group>>
                 \o GroupsFrom(text, literal,
                               IF Len(literal) = 0 /\ Len(m.group) = 0
                               THEN m.last + 2 ELSE m.last + 1)
    IN IF from > Len(text) + 1 THEN <<>>
       ELSE Rest(SearchBefore(text, literal, from))

\* The words of  re.escape(literal) + ((?:\s+\w+){0,2})  searched in text,
\* letter case ignored: up to two words that follow the first occurrence
\* of the literal, blanks before each.
RECURSIVE WordsFrom(_, _, _)
WordsFrom(text, p, n) ==
    LET Word(b, e) ==
            IF n = 0 \/ b < p \/ e <= b THEN <<>>
            ELSE <<Slice(text, b + 1, e)>> \o WordsFrom(text, e + 1, n - 1)
        Blanks(b) == Word(b, RunEnd(text, b + 1, IsWord))
    IN Blanks(RunEnd(text, p, IsSpace))

words_after_literal(text, literal) ==
    LET At(hits) == IF hits = {} THEN <<>>
                    ELSE WordsFrom(text, MinOf(hits) + Len(literal), 2)
    IN At({p \in 1..(Len(text) + 1) : OccursAt(text, p, literal)})

(***************************************************************************)
(* adjust_accuracy_for_context (lines 359-478).  The multipliers are       *)
(* returned in the order they are applied; raised tells that the walk      *)
(* stopped on an IndexError (the first token of a name that has none).     *)
(***************************************************************************)
\* word_before and word_before2 (lines 408-413) of the list words_before.
last_two(words_before) ==
    IF Len(words_before) = 0 \/ Len(words_before[1]) = 0
    THEN [word |-> <<>>, word2 |-> <<>>]
    ELSE [word |-> lower(words_before[Len(words_before)]),
          word2 |-> IF Len(words_before) > 1
                    THEN lower(words_before[Len(words_before) - 1]) ELSE <<>>]

\* One penalty: the word is the wanted one and in neither name of the item.
word_penalty(it, word, wanted, factor) ==
    IF /\ ~InStr(word, lower(it.brand_name))
       /\ ~InStr(word, lower(it.variant_name))
       /\ wanted
    THEN <<factor>> ELSE <<>>

\* Lines 436-437 and 477-478.
no_penalty(it, pr) ==
    IF /\ InStr(WORD_NO, lower(pr.original_variant_name))
       /\ ~InStr(WORD_NO, lower(it.original_variant_name))
    THEN <<9000>> ELSE <<>>

\* Lines 415-437 of one turn of the loop, the words before being known.
before_penalties(it, pr, match, b) ==
    word_penalty(it, b.word, b.word = WORD_WITH, IF match THEN 7000 ELSE 8000)
    \o word_penalty(it, b.word2, b.word2 = WORD_WITH, IF match THEN 8500 ELSE 9500)
    \o word_penalty(it, b.word, b.word = WORD_FOR, IF match THEN 3500 ELSE 4500)
    \o word_penalty(it, b.word2, b.word2 = WORD_FOR, IF match THEN 5000 ELSE 6000)
    \o no_penalty(it, pr)

\* Lines 456-478, the words after being known.
after_penalties(it, pr, match, words_after) ==
    LET word_after == IF Len(words_after) = 0 THEN <<>>
                      ELSE lower(words_after[1])
        word_after2 == IF Len(words_after) > 1 THEN lower(words_after[2])
                       ELSE <<>>
    IN word_penalty(it, word_after, is_key_word(word_after),
               IF match THEN 7000 ELSE 8500)
       \o word_penalty(it, word_after2, is_key_word(word_after2),
                  IF match THEN 8500 ELSE 9700)
       \o no_penalty(it, pr)

\* match = True: the words are read around the item's original names, the
\* brand's in the first turn of the loop and the variant's in the second.
context_of_match(it, pr) ==
    LET Turns(before) ==
            [factors |->
                 before[1] \o before[2]
                 \o after_penalties(it, pr, TRUE,
                        words_after_literal(pr.original_variant_name,
                                            it.original_variant_name)),
             raised |-> FALSE]
        Around(item_parts, product_parts) ==
            Turns([k \in 1..2 |->
                      before_penalties(it, pr, TRUE,
                          last_two(SearchBefore(product_parts[k],
                                                item_parts[k], 1).words))])
    IN Around(<<it.original_brand_name, it.original_variant_name>>,
              <<pr.original_brand_name, pr.original_variant_name>>)

\* match = False: the words are read around the first normalized token of
\* temp_item.variant_name, which is item.variant_name in the brand turn
\* (only temp_item.brand_name is replaced there) and the original variant
\* name in the variant turn and after the loop.
context_of_no_match(it, pr) ==
    LET Turns(tokens, before) ==
            IF Len(tokens[1]) = 0 THEN [factors |-> <<>>, raised |-> TRUE]
            ELSE IF Len(tokens[2]) = 0
            THEN [factors |-> before[1], raised |-> TRUE]
            ELSE [factors |->
                      before[1] \o before[2]
                      \o after_penalties(it, pr, FALSE,
                             words_after_literal(pr.original_variant_name,
                                                 tokens[2][1])),
                  raised |-> FALSE]
        Around(tokens, product_parts) ==
            Turns(tokens,
                  [k \in 1..2 |->
                      before_penalties(it, pr, FALSE,
                          last_two(GroupsFrom(product_parts[k],
                                              tokens[k][1], 1)))])
        Tokenized(names) ==
            Around([k \in 1..2 |-> TokenSet(names[k]).variant_name_normalized],
                   <<pr.original_brand_name, pr.original_variant_name>>)
    IN Tokenized(<<it.variant_name, it.original_variant_name>>)

adjust_accuracy_for_context(it, pr, match) ==
    IF match THEN context_of_match(it, pr)
    ELSE context_of_no_match(it, pr)

(***************************************************************************)
(* adjust_accuracy_for_end (lines 480-504).  The last tokens are read with *)
(* [-1], an IndexError on a name without tokens; when they differ the      *)
(* function calls WordFilterer.get_tag, which WordFilterer does not        *)
(* define, so that branch ends in an AttributeError before any multiplier. *)
(***************************************************************************)
adjust_accuracy_for_end(it, pr) ==
    LET Last(tokens) ==
            IF Len(tokens[1]) = 0 \/ Len(tokens[2]) = 0
            THEN [factors |-> <<>>, raised |-> TRUE]
            ELSE IF tokens[1][Len(tokens[1])] = tokens[2][Len(tokens[2])]
            THEN [factors |-> <<9900>>, raised |-> FALSE]
            ELSE [factors |-> <<>>, raised |-> TRUE]
        Tokenized(names) ==
            Last([k \in 1..2 |-> TokenSet(names[k]).variant_name_normalized])
    IN Tokenized(<<pr.original_variant_name, it.original_variant_name>>)

\* Two runs of multipliers one after the other: the second is not reached
\* when the first raised.
after(first, second) ==
    IF first.raised THEN first
    ELSE [factors |-> first.factors \o second.factors, raised |-> second.raised]

times(factor) == [factors |-> <<factor>>, raised |-> FALSE]

(***************************************************************************)
(* calculate_accuracy_is_match (lines 55-181).  tier is the check that     *)
(* applied (1 to 5, 0 when none did); variant_name and product_variant are *)
(* what item.variant_name and product.variant_name hold when the function  *)
(* is left, by return or by exception.                                     *)
(***************************************************************************)
\* The three-way multiplier of the inclusive checks (lines 106-114,
\* 125-133, 161-169): base when the item's text has a digit, base - .4 when
\* only the product's has one, base - .05 otherwise.
inclusive_factor(base, item_text, product_text) ==
    IF any_digit(item_text) THEN base
    ELSE IF any_digit(product_text) THEN base - 4000
    ELSE base - 500

\* A multiplier of the exact checks that does not look for a digit.
exact_factor_flat(base, item_text) == base

\* The two-way multiplier of the exact checks (lines 78-82, 89-93, 148-152).
exact_factor(base, item_text) ==
    IF any_digit(item_text) THEN base ELSE base - 500

\* The same without the restore of lines 179-180.
variant_name_after_kept(tier, raised, before, rewritten) ==
    IF tier \in 1..4 THEN before
    ELSE IF raised \/ tier = 0 THEN rewritten
    ELSE before

\* What a variant_name holds when calculate_accuracy_is_match is left:
\* the first four checks do not write it; lines 143-144 rewrite it without
\* blanks and in lower case, and lines 156-157, 173-174 and 179-180 put the
\* text back before each return, which an exception in between skips.
variant_name_after(tier, raised, before, rewritten) ==
    IF tier \in 1..4 THEN before
    ELSE IF raised THEN rewritten
    ELSE before

calculate_accuracy_is_match(it, pr) ==
    LET Left(tier, run, item5, product5) ==
            [tier |-> tier, factors |-> run.factors, raised |-> run.raised,
             variant_name |->
                 variant_name_after(tier, run.raised, it.variant_name,
                                    item5.variant_name),
             product_variant |->
                 variant_name_after(tier, run.raised, pr.variant_name,
                                    product5.variant_name)]
        Own(tier, item5, product5) ==
            IF tier = 1 THEN exact_factor(EXACT_MATCH_SCORE, it.variant_name)
            ELSE IF tier = 2 THEN
                exact_factor(EXACT_CASE_INSENSITIVE_MATCH_SCORE, it.variant_name)
            ELSE IF tier = 3 THEN
                inclusive_factor(EXACT_INCLUSIVE_MATCH_SCORE,
                                 it.variant_name, pr.variant_name)
            ELSE IF tier = 4 THEN
                inclusive_factor(EXACT_INCLUSIVE_CASE_INSENSITIVE_MATCH_SCORE,
                                 it.name, pr.name)
            ELSE IF item5.variant_name = product5.variant_name THEN
                exact_factor(EXACT_NO_SPACES_MATCH_SCORE, item5.variant_name)
            ELSE inclusive_factor(
                     EXACT_INCLUSIVE_CASE_INSENSITIVE_NO_SPACES_MATCH_SCORE,
                     item5.variant_name, product5.variant_name)
        Before(tier, context) ==
            IF tier = 5 THEN context
            ELSE after(context, adjust_accuracy_for_end(it, pr))
        Run(tier, item5, product5) ==
            IF tier = 0
            THEN Left(0, [factors |-> <<>>, raised |-> FALSE], item5, product5)
            ELSE IF tier \in 1..2
            THEN Left(tier, times(Own(tier, item5, product5)), item5, product5)
            ELSE Left(tier,
                      after(Before(tier,
                                adjust_accuracy_for_context(
                                    IF tier = 5 THEN item5 ELSE it,
                                    IF tier = 5 THEN product5 ELSE pr, TRUE)),
                            times(Own(tier, item5, product5))),
                      item5, product5)
        Checked(item5, product5) ==
            Run(IF it.variant_name = pr.variant_name THEN 1
                ELSE IF lower(it.variant_name) = lower(pr.variant_name) THEN 2
                ELSE IF InStr(it.variant_name, pr.variant_name) THEN 3
                ELSE IF InStr(lower(it.name), lower(pr.name)) THEN 4
                ELSE IF InStr(item5.variant_name, product5.variant_name) THEN 5
                ELSE 0,
                item5, product5)
    IN Checked([it EXCEPT !.variant_name = no_spaces_lower(@)],
               [pr EXCEPT !.variant_name = no_spaces_lower(@)])

(***************************************************************************)
(* calculate_accuracy_no_match (lines 183-357).                            *)
(***************************************************************************)
\* The loop of lines 220-231 after its first k turns: numbers_in_name and
\* numbers_match are set to 0 at the top of every turn, num_parts_match is
\* not.
token_loop(searched_words, product_name_words) ==
    LET Found(k) == \E j \in DOMAIN product_name_words :
                        product_name_words[j] = searched_words[k]
        Upto[k \in 0..Len(searched_words)] ==
            IF k = 0
            THEN [numbers_in_name |-> 0, numbers_match |-> 0, num_parts_match |-> 0]
            ELSE [numbers_in_name |-> IF any_digit(searched_words[k]) THEN 1 ELSE 0,
                  numbers_match |->
                      IF any_digit(searched_words[k]) /\ Found(k) THEN 1 ELSE 0,
                  num_parts_match |->
                      Upto[k - 1].num_parts_match + (IF Found(k) THEN 1 ELSE 0)]
    IN Upto[Len(searched_words)]

\* Lines 243-260: the multiplier for the difference of lengths.
length_factor(product_words, item_words, num_parts_match) ==
    LET d == Abs(product_words - num_parts_match)
    IN IF product_words < item_words
       THEN IF d = 1 THEN 9700 ELSE IF d = 2 THEN 9200 ELSE IF d = 3 THEN 8700 ELSE 8000
       ELSE IF d = 1 THEN 7500 ELSE IF d = 2 THEN 7000 ELSE IF d = 3 THEN 6500 ELSE 6000

\* One band of lines 272-357: the multipliers for base P, where mismatch is
\* the multiplier the band applies when numbers_in_name # numbers_match
\* and plain the one it applies to a name whose last token has no digit.
band(P, up, mismatch, plain, words, c) ==
    IF c.numbers_in_name # 0
    THEN <<IF (words \div 5) < c.numbers_in_name THEN P
             ELSE IF (words \div 2) < c.numbers_in_name THEN P + up
             ELSE P - 200>>
         \o (IF c.numbers_in_name # c.numbers_match THEN <<mismatch>> ELSE <<>>)
    ELSE <<plain>>

\* Lines 262-357: search_closeness is num_parts_match / len(searched_words).
closeness_factors(words, c) ==
    LET n == c.num_parts_match
    IN IF n = words THEN
                <<IF (words \div 5) < c.numbers_in_name THEN EXACT_CLOSENESS_MATCH_SCORE
                    ELSE IF (words \div 2) < c.numbers_in_name THEN
                           EXACT_CLOSENESS_MATCH_SCORE + 500
                    ELSE IF c.numbers_in_name > 0 THEN EXACT_CLOSENESS_MATCH_SCORE - 500
                    ELSE EXACT_CLOSENESS_MATCH_SCORE - 2500>>
         ELSE IF 10 * n < 3 * words THEN <<100>>
         ELSE IF 10 * n < 4 * words THEN
                IF c.numbers_in_name # 0
                THEN <<IF (words \div 5) < c.numbers_in_name THEN P30_CLOSENESS_MATCH_SCORE
                         ELSE IF (words \div 2) < c.numbers_in_name THEN
                                P30_CLOSENESS_MATCH_SCORE + 200
                         ELSE P30_CLOSENESS_MATCH_SCORE - 100>>
                     \o (IF c.numbers_in_name = c.numbers_match THEN <<2000>>
                         ELSE <<>>)
                ELSE <<P30_CLOSENESS_MATCH_SCORE - 200>>
         ELSE IF 10 * n < 5 * words THEN
                band(P40_CLOSENESS_MATCH_SCORE, 300, 2000,
                     P40_CLOSENESS_MATCH_SCORE - 500, words, c)
         ELSE IF 10 * n < 6 * words THEN
                band(P50_CLOSENESS_MATCH_SCORE, 300, 2000,
                     P50_CLOSENESS_MATCH_SCORE - 500, words, c)
         ELSE IF 10 * n < 7 * words THEN
                band(P60_CLOSENESS_MATCH_SCORE, 300, 720,
                     P60_CLOSENESS_MATCH_SCORE - 500, words, c)
         ELSE IF 10 * n < 8 * words THEN
                band(P70_CLOSENESS_MATCH_SCORE, 300, 820,
                     P70_CLOSENESS_MATCH_SCORE - 500, words, c)
         ELSE IF 10 * n < 9 * words THEN
                band(P80_CLOSENESS_MATCH_SCORE, 300, 2000,
                     P80_CLOSENESS_MATCH_SCORE - 2000, words, c)
         ELSE
                band(P90_CLOSENESS_MATCH_SCORE, 300, 2000,
                     P90_CLOSENESS_MATCH_SCORE - 2000, words, c)

\* zeroed tells that the score was set to 0 (line 237), whatever it had
\* been multiplied by; counts are the counters as the token loop left them.
calculate_accuracy_no_match(it, pr) ==
    LET Words(tokens) == Cardinality({k \in DOMAIN tokens : ~isdigit(tokens[k])})
        brand == IF Len(it.brand_name) # 0 /\ Len(pr.brand_name) = 0
                 THEN <<1000>> ELSE <<>>
        Scored(run, c, searched_words, product_name_words) ==
            IF run.raised
            THEN [factors |-> run.factors, raised |-> TRUE, zeroed |-> FALSE,
                  counts |-> <<>>]
            ELSE IF c.num_parts_match = 0
            THEN [factors |-> run.factors \o brand, raised |-> FALSE,
                  zeroed |-> TRUE, counts |-> c]
            ELSE [factors |->
                      run.factors \o brand
                      \o <<length_factor(Words(product_name_words),
                                         Words(searched_words), c.num_parts_match)>>
                      \o closeness_factors(Len(searched_words), c),
                  raised |-> FALSE, zeroed |-> FALSE, counts |-> c]
        Tokenized(tokens) ==
            Scored(after(adjust_accuracy_for_context(it, pr, FALSE),
                         adjust_accuracy_for_end(it, pr)),
                   token_loop(tokens[1], tokens[2]), tokens[1], tokens[2])
    IN Tokenized([k \in 1..2 |->
                     TokenSet(<<it.variant_name, pr.variant_name>>[k])
                         .variant_name_normalized])

(***************************************************************************)
(* set_accuracy (lines 43-53) for one target and one filtered candidate,   *)
(* over names that reach every tier and the no-match branch.               *)
(***************************************************************************)
\* An Item or a Product as the cleaner leaves it: name is brand and variant
\* joined, the original names are the ones the listing or the search came
\* with.
Good(brand_name, variant_name, original_variant_name) ==
    [name |-> Joined(brand_name, variant_name),
     brand_name |-> brand_name,
     variant_name |-> variant_name,
     original_brand_name |-> brand_name,
     original_variant_name |-> original_variant_name,
     accuracy_score |-> <<>>]

NameAcme == <<"A", "c", "m", "e">>
NamePhone12 == <<"P", "h", "o", "n", "e", " ", "1", "2">>
NamePhone == <<"P", "h", "o", "n", "e">>
NameTwelve == <<"1", "2">>

\* The variant names of the targets.
AccuracyItemNames ==
    {NamePhone12, NamePhone, NameTwelve, lower(NamePhone12),
     NameTwelve \o <<" ">> \o NamePhone}

\* The variant names of the candidates: Phone 12, phone 12, Phone12,
\* Phone 12 case, case for Phone 12, New Phone 12, Phone, phone case,
\* Phone 12 64, Tablet 12, Tablet, 12 Tablet Phone.
AccuracyProductNames ==
    LET case == <<"c", "a", "s", "e">>
        tablet == <<"T", "a", "b", "l", "e", "t">>
        sp == <<" ">>
    IN {NamePhone12, lower(NamePhone12), NamePhone \o NameTwelve,
        NamePhone12 \o sp \o case,
        case \o sp \o WORD_FOR \o sp \o NamePhone12,
        <<"N", "e", "w">> \o sp \o NamePhone12,
        NamePhone, lower(NamePhone) \o sp \o case,
        NamePhone12 \o sp \o <<"6", "4">>,
        tablet \o sp \o NameTwelve, tablet,
        NameTwelve \o sp \o tablet \o sp \o NamePhone}

AccuracyBrands == {<<>>, NameAcme}

\* What a listing whose cleaned variant name is variant may have read: the
\* same, or an accessory "case for ..." of it.
AccuracyListed(variant) ==
    {variant,
     <<"c", "a", "s", "e", " ">> \o WORD_FOR \o <<" ">> \o variant}

AccuracyInit ==
    /\ SearchOff
    /\ found_products = <<>>
    /\ ItemOff
    /\ LotOff
    /\ CleanOff
    /\ FeeOff
    /\ TokenOff
    /\ CreateOff
    /\ ProcessOff
    /\ a_pc = "call"
    /\ \E brand \in AccuracyBrands, variant \in AccuracyItemNames :
           a_item = Good(brand, variant, variant)
    /\ \E brand \in AccuracyBrands, variant \in AccuracyProductNames :
           \E original \in AccuracyListed(variant) :
               a_product = Good(brand, variant, original)
    /\ a_tier = 0
    /\ a_no_match = FALSE
    /\ a_counts = <<>>

\* calc.set_accuracy(item, product): the tiers, and the no-match branch
\* when calculate_accuracy_is_match returned False.  An exception leaves
\* the score with the multipliers applied before it.
SetAccuracy ==
    /\ UNCHANGED <<searchVars, itemVars, lotVars, cleanVars, feeVars, tokenVars, createVars,
                   processVars>>
    /\ a_pc = "call"
    /\ LET Take(m) ==
               LET is_match == m.tier # 0
                   Fall(n) ==
                       /\ a_product' =
                              [a_product EXCEPT
                                   !.variant_name = m.product_variant,
                                   !.accuracy_score =
                                       IF n.zeroed THEN <<0>>
                                       ELSE @ \o m.factors \o n.factors]
                       /\ a_pc' = IF m.raised \/ n.raised THEN "raised" ELSE "done"
                       /\ a_counts' = n.counts
               IN /\ a_tier' = m.tier
                  /\ a_no_match' = ~is_match
                  /\ a_item' = [a_item EXCEPT !.variant_name = m.variant_name]
                  /\ Fall(IF is_match
                          THEN [factors |-> <<>>, raised |-> FALSE, zeroed |-> FALSE,
                                counts |-> <<>>]
                          ELSE calculate_accuracy_no_match(a_item, a_product))
       IN Take(calculate_accuracy_is_match(a_item, a_product))

AccuracyNext ==
    \/ SetAccuracy

SpecAccuracy == AccuracyInit /\ [][AccuracyNext]_vars

(***************************************************************************)
(* Claims about the scoring (checked under SpecAccuracy).                  *)
(***************************************************************************)
\* Whether tier k of the documented order applies to the pair of the call.
TierApplies(k) ==
    LET iv == a_item.variant_name
        pv == a_product.variant_name
    IN IF k = 1 THEN iv = pv
       ELSE IF k = 2 THEN lower(iv) = lower(pv)
       ELSE IF k = 3 THEN InStr(iv, pv)
       ELSE IF k = 4 THEN InStr(lower(a_item.name), lower(a_product.name))
       ELSE InStr(no_spaces_lower(iv), no_spaces_lower(pv))

\* The multipliers a tier may apply as its own factor.
TierFactors(k) ==
    IF k = 1 THEN {10000, 9500}
    ELSE IF k = 2 THEN {9800, 9300}
    ELSE IF k = 3 THEN {8500, 4500, 8000}
    ELSE IF k = 4 THEN {8300, 4300, 7800}
    ELSE {9700, 9200, 8100, 4100, 7600}

\* C17: the tier that applies is the first of 1 (equal variants), 2 (equal
\* ignoring case), 3 (variant inside variant), 4 (name inside name), 5 (the
\* same without blanks and case) whose test holds; a call that returns has
\* applied that tier's factor once, as its last multiplier, after the
\* contextual multipliers of tiers 3 to 5 only; tier 1 multiplies by 1.0
\* when the variant has a digit and by 0.95 otherwise and by nothing else;
\* and the no-match branch is entered exactly when no tier applies.
C17_FirstTierOnly ==
    a_pc \in {"done", "raised"} =>
        /\ a_tier \in 0..5
        /\ a_tier # 0 => /\ TierApplies(a_tier)
                         /\ \A k \in 1..(a_tier - 1) : ~TierApplies(k)
        /\ a_tier = 0 => \A k \in 1..5 : ~TierApplies(k)
        /\ a_no_match <=> a_tier = 0
        /\ (a_tier = 1 /\ a_pc = "done") =>
               a_product.accuracy_score =
                   IF any_digit(a_item.variant_name) THEN <<10000>> ELSE <<9500>>
        /\ (a_tier = 2 /\ a_pc = "done") =>
               /\ Len(a_product.accuracy_score) = 1
               /\ a_product.accuracy_score[1] \in TierFactors(2)
        /\ (a_tier \in 3..5 /\ a_pc = "done") =>
               LET score == a_product.accuracy_score
                   context == context_of_match(
                                  IF a_tier = 5
                                  THEN [a_item EXCEPT !.variant_name =
                                                          no_spaces_lower(@)]
                                  ELSE a_item,
                                  a_product).factors
                   end == IF a_tier = 5 THEN <<>> ELSE <<9900>>
               IN /\ Len(score) >= 1
                  /\ score[Len(score)] \in TierFactors(a_tier)
                  /\ score = context \o end \o <<score[Len(score)]>>
        /\ (a_tier # 0 /\ a_pc = "raised") =>
               \A k \in DOMAIN a_product.accuracy_score :
                   a_product.accuracy_score[k] \in {7000, 8500, 3500, 5000, 9000}

\* Tier 1 has applied to a variant without a digit and the call returned.
C17_ExactNoDigit ==
    /\ a_pc = "done"
    /\ a_tier = 1
    /\ ~any_digit(a_item.variant_name)
    /\ a_product.accuracy_score = <<9500>>
\* The normalized tokens of a variant name.
NormalizedTokens(variant_name) == TokenSet(variant_name).variant_name_normalized

\* C24: when calculate_accuracy_no_match has run its token loop,
\* numbers_in_name is the number of the target's tokens that hold a digit
\* and numbers_match the number of those found among the candidate's
\* tokens, counted over the whole token sequence.
C24_CountsAccumulated ==
    (a_no_match /\ a_counts # <<>>) =>
        LET Totals(searched_words, product_name_words) ==
                LET numeric == {k \in DOMAIN searched_words :
                                   any_digit(searched_words[k])}
                IN /\ a_counts.numbers_in_name = Cardinality(numeric)
                   /\ a_counts.numbers_match =
                          Cardinality({k \in numeric :
                              searched_words[k] \in Range(product_name_words)})
        IN Totals(NormalizedTokens(a_item.variant_name),
                  NormalizedTokens(a_product.variant_name))

\* The token loop has run over a target whose numeric token is not its
\* last token.
C24_NumberNotLast ==
    /\ a_no_match
    /\ a_counts # <<>>
    /\ a_pc = "done"
    /\ \E k \in 1..(Len(NormalizedTokens(a_item.variant_name)) - 1) :
           any_digit(NormalizedTokens(a_item.variant_name)[k])

(***************************************************************************)
(* EbayJobLotsCreator.create, CustomJobLotsCreator.create_custom_from_img  *)
(* and JobLotsCreator.write.  A Python value whose type the code does not  *)
(* fix is held with its type: [str |-> s], [int |-> n], [float |-> x] or   *)
(* [list |-> l].  Amounts are in pence and ratings in hundredths.          *)
(***************************************************************************)
MaxCreateCalls == 2  \* how often create is called here
MaxImages == 1       \* how many images create_custom_from_img is given here

\* Python's == on two such values: values of different types are not equal.
PyEq(a, b) == DOMAIN a = DOMAIN b /\ a = b

\* str(v) for an int or a str.
Str(v) == IF "int" \in DOMAIN v THEN ToString(v.int) ELSE v.str

\* The dataclass constructor: positional arguments are bound to the fields
\* in the order of their declaration, the others take their defaults.
JobLot(args) ==
    LET Field(k, default) == IF k <= Len(args) THEN args[k] ELSE default
    IN [type |-> Field(1, [str |-> ""]),
        id |-> Field(2, [int |-> 0]),
        name |-> Field(3, [str |-> ""]),
        web_url |-> Field(4, [str |-> ""]),
        description |-> Field(5, [str |-> "None"]),
        condition |-> Field(6, [str |-> "New"]),
        items |-> Field(7, [list |-> <<>>]),
        buy_price |-> 0,
        buy_postage_price |-> 0,
        buy_other_fees |-> 0,
        buy_listing_price |-> <<0>>,
        sell_price |-> 0,
        postage_price |-> 0,
        other_fees |-> 0,
        sell_listing_price |-> 0,
        profit |-> 0,
        accuracy_score |-> 0,
        rating |-> 0]

\* LotProcessor.process lines 117-134, from the k-th item on: each item is
\* priced against the pool of its name and added to the sums.  priced holds
\* the names of the items the per-item call was made for; the loop raises
\* AttributeError at line 122 when jobLot.condition is not a str.
RECURSIVE LotLoop(_, _, _, _, _, _)
LotLoop(items, k, t, priced, condition, mkt) ==
    IF k > Len(items)
    THEN [raised |-> FALSE, items |-> items, totals |-> t, priced |-> priced]
    ELSE IF "str" \notin DOMAIN condition
    THEN [raised |-> TRUE, items |-> items, totals |-> t, priced |-> priced]
    ELSE LET Take(it) ==
                 LotLoop([items EXCEPT ![k] = it], k + 1, accumulate(t, it),
                         priced \cup {it.name}, condition, mkt)
         IN Take(process_item(items[k], mkt[items[k].name]))

\* LotProcessor.process lines 106-159 on a JobLot object.
lot_processor_process(job_lot, mkt) ==
    LET Rolled(r) ==
            IF r.raised THEN [raised |-> TRUE, lot |-> job_lot, priced |-> r.priced]
            ELSE [raised |-> FALSE,
                  lot |-> [lot_rollup(job_lot, r.totals)
                             EXCEPT !.items = [list |-> r.items]],
                  priced |-> r.priced]
    IN Rolled(LotLoop(sort_items(job_lot.items.list), 1, ZeroTotals, {},
                      job_lot.condition, mkt))

\* The amounts create and process read from a raw lot: the price and the
\* first shipping cost, converted, or nothing where the payload lacks them
\* (a value of the payload is a non-empty str, which is true).
lot_amount(d) ==
    IF "value" \in DOMAIN d /\ "currency" \in DOMAIN d
    THEN <<Convert(d.value, d.currency)>> ELSE <<>>

lot_price(lot) == lot_amount(Get(lot, "price", <<>>))

lot_postage(lot) ==
    LET options == Get(lot, "shippingOptions", <<>>)
    IN IF options # <<>> THEN lot_amount(Get(options[1], "shippingCost", <<>>))
       ELSE <<>>

\* EbayJobLotsCreator.create lines 100-102.
listing_price_of(lot) ==
    IF lot_price(lot) # <<>> THEN [float |-> lot_price(lot)[1]]
    ELSE [str |-> "Price not available"]

postage_price_of(lot) ==
    IF lot_postage(lot) # <<>> THEN [float |-> lot_postage(lot)[1]]
    ELSE [str |-> "Postage not available"]

\* JobLotsCreator.check_job_lot_exists (the file exists once a FileHandler
\* has been constructed).
check_job_lot_exists(job_lots, id, listing_price, postage_price) ==
    \E k \in 1..Len(job_lots) :
        /\ Str(job_lots[k].id) = Str(id)
        /\ PyEq([float |-> job_lots[k].buy_listing_price[1]], listing_price)
        /\ PyEq([float |-> job_lots[k].postage_price], postage_price)

\* EbayJobLotsCreator.process lines 197-242, for the items the extractor
\* returns; TypeError at line 229 when the payload has no price.
ebay_process(lot, items, mkt) ==
    LET postage_price == IF lot_postage(lot) # <<>> THEN lot_postage(lot)[1] ELSE 0
        job_lot == JobLot(<<[str |-> "ebay"], [str |-> lot.itemId],
                            [str |-> lot.title], [str |-> lot.itemWebUrl]>>)
        Filled(listing_price) ==
            [job_lot EXCEPT !.buy_price = listing_price,
                            !.buy_postage_price = postage_price,
                            !.buy_other_fees = 0,
                            !.buy_listing_price = <<listing_price + postage_price>>,
                            !.description = [str |-> "description"],
                            !.items = [list |-> items],
                            !.condition = [str |-> Get(lot, "condition", "New")]]
    IN IF lot_price(lot) = <<>>
       THEN [raised |-> TRUE, lot |-> job_lot, priced |-> {}]
       ELSE lot_processor_process(Filled(lot_price(lot)[1]), mkt)

\* JobLotsCreator.write lines 140-152; write_sorted writes a text report
\* and leaves both stored lists as they are.
write_all(job_lots, job_lot) ==
    IF job_lot \in Range(job_lots) THEN job_lots ELSE Append(job_lots, job_lot)

write_working(job_lots, job_lot) ==
    IF job_lot.rating < -10000 \/ job_lot \in Range(job_lots) THEN job_lots
    ELSE Append(job_lots, job_lot)

\* The listings of the marketplace: with or without a price, without a
\* shipping option, with free shipping or with shipping for 2.50.
RawLot(n, priced, shipping) ==
    LET base == [itemId |-> IF n = 1 THEN "v1|1|0" ELSE "v1|2|0",
                 title |-> IF n = 1 THEN "job lot one" ELSE "job lot two",
                 itemWebUrl |-> "url"]
        with_price ==
            IF priced THEN Put(base, "price", [value |-> 1000, currency |-> "GBP"])
            ELSE base
    IN IF shipping = <<>> THEN with_price
       ELSE Put(with_price, "shippingOptions",
                <<[shippingCost |-> [value |-> shipping[1], currency |-> "GBP"]]>>)

RawLots == {RawLot(1, priced, shipping) :
               priced \in BOOLEAN, shipping \in {<<>>, <<0>>, <<250>>}}

Catalogues == {<<first, RawLot(2, TRUE, shipping)>> :
                  first \in RawLots, shipping \in {<<0>>, <<250>>}}

\* What the extractor reads from an image.
Extracted ==
    {<<>>, <<Put(NewItem(<<>>, 1), "name", "a")>>}

CreatePools == {MakePool(a, n, a, 0) :
                   a \in {Priced("exact", 1000, 0), Priced("close", 800, 300)},
                   n \in {0, MaxLotPool}}

\* create line 92: the marketplace answers the search with its first lots,
\* up to the limit.
CreateCall ==
    /\ UNCHANGED <<searchVars, itemVars, lotVars, cleanVars, feeVars, tokenVars,
                   accuracyVars, processVars>>
    /\ e_pc = "idle"
    /\ e_calls < MaxCreateCalls
    /\ \E limit \in 1..Len(e_catalogue) : e_lots' = SubSeq(e_catalogue, 1, limit)
    /\ e_k' = 0
    /\ e_calls' = e_calls + 1
    /\ e_pc' = "lot"
    /\ UNCHANGED <<all_job_lots, working_job_lots, e_market, e_catalogue, e_images, e_log>>

\* create lines 93-105: the lot is found in storage and skipped.
CreateSkip ==
    /\ UNCHANGED <<searchVars, itemVars, lotVars, cleanVars, feeVars, tokenVars,
                   accuracyVars, processVars>>
    /\ e_pc = "lot"
    /\ LET lot == e_lots[e_k + 1]
       IN /\ check_job_lot_exists(all_job_lots, [str |-> lot.itemId],
                                  listing_price_of(lot), postage_price_of(lot))
          /\ e_log' = Append(e_log, [call |-> e_calls, id |-> lot.itemId,
                                     lot |-> lot, op |-> "skip"])
    /\ e_k' = e_k + 1
    /\ e_pc' = IF e_k + 1 < Len(e_lots) THEN "lot" ELSE "idle"
    /\ UNCHANGED <<e_lots, all_job_lots, working_job_lots, e_market, e_catalogue, e_calls, e_images>>

\* create lines 93-107: the lot is not found, so it is processed and written.
CreateWrite ==
    /\ UNCHANGED <<searchVars, itemVars, lotVars, cleanVars, feeVars, tokenVars,
                   accuracyVars, processVars>>
    /\ e_pc = "lot"
    /\ LET lot == e_lots[e_k + 1]
           Written(r) ==
               /\ ~r.raised
               /\ all_job_lots' = write_all(all_job_lots, r.lot)
               /\ working_job_lots' = write_working(working_job_lots, r.lot)
               /\ e_log' = Append(e_log, [call |-> e_calls, id |-> lot.itemId,
                                          lot |-> lot, op |-> "write"])
       IN /\ ~check_job_lot_exists(all_job_lots, [str |-> lot.itemId],
                                   listing_price_of(lot), postage_price_of(lot))
          /\ \E items \in Extracted : Written(ebay_process(lot, items, e_market))
    /\ e_k' = e_k + 1
    /\ e_pc' = IF e_k + 1 < Len(e_lots) THEN "lot" ELSE "idle"
    /\ UNCHANGED <<e_lots, e_market, e_catalogue, e_calls, e_images>>

\* create lines 93-106: the lot is not found and process raises, for want
\* of a price or because a marketplace request of a per-item call fails.
CreateRaises ==
    /\ UNCHANGED <<searchVars, itemVars, lotVars, cleanVars, feeVars, tokenVars,
                   accuracyVars, processVars>>
    /\ e_pc = "lot"
    /\ LET lot == e_lots[e_k + 1]
           Raised(items, r) ==
               /\ r.raised \/ items # <<>>
               /\ e_log' = Append(e_log, [call |-> e_calls, id |-> lot.itemId,
                                          lot |-> lot, op |-> "raise"])
       IN /\ ~check_job_lot_exists(all_job_lots, [str |-> lot.itemId],
                                   listing_price_of(lot), postage_price_of(lot))
          /\ \E items \in Extracted : Raised(items, ebay_process(lot, items, e_market))
    /\ e_pc' = "idle"
    /\ UNCHANGED <<e_lots, e_k, all_job_lots, working_job_lots, e_market, e_catalogue, e_calls,
                   e_images>>

\* create_custom_from_img lines 129-132, when process returns.
CustomFromImg ==
    /\ UNCHANGED <<searchVars, itemVars, lotVars, cleanVars, feeVars, tokenVars,
                   accuracyVars, processVars>>
    /\ e_pc = "idle"
    /\ e_images < MaxImages
    /\ LET item_id == e_images + 1
           Written(items, r) ==
               /\ ~r.raised
               /\ all_job_lots' = write_all(all_job_lots, r.lot)
               /\ working_job_lots' = write_working(working_job_lots, r.lot)
               /\ e_log' = Append(e_log, [call |-> 0, id |-> ToString(0 - item_id),
                                          op |-> "custom", extracted |-> items,
                                          priced |-> r.priced, written |-> r.lot])
           Built(items) ==
               Written(items, lot_processor_process(
                   JobLot(<<[str |-> "custom"], [int |-> 0 - item_id],
                            [str |-> IF item_id = 1 THEN "custom1" ELSE "custom2"],
                            [str |-> "NA"], [str |-> "Custom image"],
                            [list |-> items]>>), e_market))
       IN \E items \in Extracted : Built(items)
    /\ e_images' = e_images + 1
    /\ UNCHANGED <<e_pc, e_lots, e_k, e_market, e_catalogue, e_calls>>

CreateInit ==
    /\ SearchOff
    /\ found_products = <<>>
    /\ ItemOff
    /\ LotOff
    /\ CleanOff
    /\ FeeOff
    /\ TokenOff
    /\ AccuracyOff
    /\ ProcessOff
    /\ e_pc = "idle"
    /\ e_lots = <<>>
    /\ e_k = 0
    /\ all_job_lots = <<>>
    /\ working_job_lots = <<>>
    /\ e_market \in [{"a"} -> CreatePools]
    /\ e_catalogue \in Catalogues
    /\ e_calls = 0
    /\ e_images = 0
    /\ e_log = <<>>

CreateNext ==
    \/ CreateCall
    \/ CreateSkip
    \/ CreateWrite
    \/ CreateRaises
    \/ CustomFromImg

SpecCreate == CreateInit /\ [][CreateNext]_vars

(***************************************************************************)
(* Claims about the creators (checked under SpecCreate).                   *)
(***************************************************************************)
\* The entries of the log that a create call made for a raw lot.
HandledBy(ops) == {k \in 1..Len(e_log) : e_log[k].op \in ops}

\* C26: a listing that an earlier create call processed and wrote is
\* skipped by a later create call whose search returns the same listing
\* (same itemId, price and shipping cost): the later call invokes neither
\* process nor write for it.
C26_StoredIsSkipped ==
    \A j \in HandledBy({"write"}) : \A k \in HandledBy({"write", "raise"}) :
        ~(e_log[j].call < e_log[k].call /\ e_log[j].lot = e_log[k].lot)

\* A later create call has dealt with a listing an earlier call wrote.
C26_SeenAgain ==
    \E j \in HandledBy({"write"}) : \E k \in HandledBy({"skip", "write", "raise"}) :
        e_log[j].call < e_log[k].call /\ e_log[j].lot = e_log[k].lot

\* C27: the lot create_custom_from_img writes holds exactly the items
\* extracted from the image, and each of them was priced by
\* LotProcessor.process before the lot was written.
C27_ExtractedArePriced ==
    \A k \in HandledBy({"custom"}) :
        LET names(items) == {items[n].name : n \in 1..Len(items)}
        IN /\ Len(e_log[k].written.items.list) = Len(e_log[k].extracted)
           /\ names(e_log[k].written.items.list) = names(e_log[k].extracted)
           /\ names(e_log[k].extracted) \subseteq e_log[k].priced
           /\ e_log[k].written \in Range(all_job_lots)

\* An image with an item on it has been made into a lot and written.
C27_ImageWithItem ==
    \E k \in HandledBy({"custom"}) :
        /\ e_log[k].extracted # <<>>
        /\ e_log[k].written \in Range(all_job_lots)

(***************************************************************************)
(* ProductProcessor.process (lines 72-107): clean_product, filter_name,    *)
(* set_accuracy on each filtered copy, set_average_product_info and        *)
(* map_accuracy_to_quality_score.  The target item is one object; c_item   *)
(* is the item as the cleaning steps hold it and a_item as the scoring     *)
(* steps hold it.  spaCy's tag of a token is an input.                     *)
(***************************************************************************)
POS == {"NOUN", "PROPN", "ADJ", "ADV", "VERB"}

FILTERSCHEMES ==
    <<[word_type |-> {"NOUN", "PROPN", "ADJ", "ADV"}, weight |-> Weights[1]],
      [word_type |-> {"NOUN", "PROPN", "ADJ"}, weight |-> Weights[2]],
      [word_type |-> {"NOUN", "PROPN"}, weight |-> Weights[3]],
      [word_type |-> {"NOUN"}, weight |-> Weights[4]]>>

\* WordFilterer.filter_product line 151: the tokens kept whatever their tag.
kept_untagged(token_lower, it) ==
    \/ token_lower \in {WORD_FOR, WORD_WITH}
    \/ InStr(token_lower, lower(it.variant_name))
    \/ token_lower \in UnitNames
    \/ any_digit(token_lower)

\* The normalized tokens of product.variant_name that spaCy is asked about.
tagged_tokens(it, product) ==
    LET Asked(normalized) ==
            {normalized[k] : k \in {j \in DOMAIN normalized :
                                       ~kept_untagged(normalized[j], it)}}
    IN Asked(TokenSet(product.variant_name).variant_name_normalized)

\* WordFilterer.filter_product lines 145-158 on a copy of product.
filter_product(it, product, filters, tag) ==
    LET Joined_kept(ts) ==
            Concatenated(
                [k \in DOMAIN ts.variant_name_raw |->
                    IF \/ kept_untagged(ts.variant_name_normalized[k], it)
                       \/ tag[ts.variant_name_normalized[k]] \in filters
                    THEN ts.variant_name_raw[k] ELSE <<>>])
    IN [product EXCEPT !.variant_name = Joined_kept(TokenSet(product.variant_name))]

\* product.accuracy_score after the multiplications of set_accuracy, each
\* product rounded to a hundredth.
RECURSIVE multiplied(_, _)
multiplied(score, factors) ==
    IF Len(factors) = 0 THEN score
    ELSE multiplied(RoundDiv(score * Head(factors), 10000), Tail(factors))

\* The filtered copies, the one set_accuracy returned for last included.
scored_copies(copies, k, scored) ==
    IF k = 0 THEN copies
    ELSE [copies EXCEPT ![k] = [@ EXCEPT
              !.variant_name = scored.variant_name,
              !.accuracy_score = multiplied(@, scored.accuracy_score)]]

\* set_average_product_info (lines 144-160).
set_average_product_info(product, copies) ==
    LET Sum[k \in 0..Len(copies)] ==
            IF k = 0 THEN [score |-> 0, weight |-> 0]
            ELSE [score |-> Sum[k - 1].score
                            + copies[k].accuracy_score * FILTERSCHEMES[k].weight,
                  weight |-> Sum[k - 1].weight + FILTERSCHEMES[k].weight]
    IN [product EXCEPT !.accuracy_score =
           RoundDiv(Sum[Len(copies)].score, Sum[Len(copies)].weight)]

\* The thresholds of map_accuracy_to_quality_score (lines 175-213), the
\* accuracy in hundredths and the quality in tenths.
QualitySteps ==
    <<<<9500, 9700>>, <<9000, 9300>>, <<8500, 8900>>, <<8000, 8500>>,
      <<7500, 8100>>, <<7000, 7600>>, <<6500, 7100>>, <<6000, 6600>>,
      <<5500, 6000>>, <<5000, 5400>>, <<4500, 4800>>, <<4000, 4100>>,
      <<3000, 2600>>, <<2000, 1100>>, <<1000, 100>>, <<500, 30>>,
      <<300, 10>>, <<100, 1>>>>

\* map_accuracy_to_quality_score: a score below 1 leaves the field as it is.
map_accuracy_to_quality_score(product) ==
    LET reached == {k \in DOMAIN QualitySteps :
                       product.accuracy_score >= QualitySteps[k][1]}
    IN IF product.accuracy_score = 10000
       THEN Put(product, "buy_quality_score", 10000)
       ELSE IF reached = {} THEN product
       ELSE Put(product, "buy_quality_score", QualitySteps[MinOf(reached)][2])

\* Lines 95-96: filter_name makes one filtered copy per scheme.  The tagger
\* is the one is_key_word asks, so a token is a NOUN here when it is there.
ProcessFilterName ==
    /\ UNCHANGED <<searchVars, itemVars, lotVars, cleanVars, feeVars, tokenVars,
                   accuracyVars, createVars>>
    /\ p_pc = "clean"
    /\ c_pc = "done"
    /\ \E tag \in [tagged_tokens(a_item, c_product) -> POS] :
           /\ \A w \in DOMAIN tag : (tag[w] = "NOUN") = is_key_word(w)
           /\ p_filtered' = [k \in DOMAIN FILTERSCHEMES |->
                                filter_product(a_item, c_product,
                                               FILTERSCHEMES[k].word_type, tag)]
    /\ p_k' = 0
    /\ p_pc' = "score"
    /\ UNCHANGED <<p_before, p_tiers>>

\* Lines 99-101, the head of the loop: the next copy goes to set_accuracy.
ProcessTake ==
    /\ UNCHANGED <<searchVars, itemVars, lotVars, cleanVars, feeVars, tokenVars,
                   createVars>>
    /\ p_pc = "score"
    /\ a_pc \in {"wait", "done"}
    /\ p_k < Len(p_filtered)
    /\ p_filtered' = scored_copies(p_filtered, p_k, a_product)
    /\ p_tiers' = IF p_k = 0 THEN p_tiers ELSE Append(p_tiers, a_tier)
    /\ a_product' = [p_filtered[p_k + 1] EXCEPT !.accuracy_score = <<>>]
    /\ a_pc' = "call"
    /\ p_k' = p_k + 1
    /\ UNCHANGED <<a_item, a_tier, a_no_match, a_counts, p_pc, p_before>>

\* Lines 104-107: the scores are averaged and mapped; process returns.
ProcessAverage ==
    /\ UNCHANGED <<searchVars, itemVars, lotVars, feeVars, tokenVars, accuracyVars,
                   createVars>>
    /\ p_pc = "score"
    /\ a_pc = "done"
    /\ p_k = Len(p_filtered)
    /\ p_filtered' = scored_copies(p_filtered, p_k, a_product)
    /\ p_tiers' = Append(p_tiers, a_tier)
    /\ c_product' = map_accuracy_to_quality_score(
                        set_average_product_info(c_product, p_filtered'))
    /\ p_pc' = "returned"
    /\ UNCHANGED <<c_pc, c_item, c_units, c_values, c_created, c_calls, c_first,
                   p_k, p_before>>

\* The targets and the listings of this part.
ProcessItems ==
    LET butter == <<"B", "u", "t", "t", "e", "r">>
        ml50 == <<" ", "5", "0", "m", "l">>
    IN {Put(Good(<<"A", "b">>, butter \o ml50, butter \o ml50), "measurements",
            <<<<5000, <<"m", "l">>>>>>),
        Put(Good(<<>>, butter \o ml50, butter \o ml50), "measurements",
            <<<<10000, <<"m", "l">>>>>>),
        Put(Good(<<"A", "b">>, butter, butter), "measurements", <<>>)}

ProcessTitles ==
    {<<"A", "b", " ", "B", "u", "t", "t", "e", "r", " ", "5", "0", "m", "l">>,
     <<"A", "b", " ", "B", "u", "t", "t", "e", "r", " ", "1", "0", "0", "m", "l">>,
     <<"B", "u", "t", "t", "e", "r", " ", "2", "5", " ", "M", "L", " ", "n", "e", "w">>,
     <<"b", "u", "t", "t", "e", "r", " ", "5", "0", "m", "l", " ", "p", "o", "t">>,
     <<"c", "r", "e", "a", "m", " ", "3", "0", "g">>,
     <<"A", "b", " ", "B", "u", "t", "t", "e", "r">>}

ProcessInit ==
    /\ SearchOff
    /\ found_products = <<>>
    /\ ItemOff
    /\ LotOff
    /\ FeeOff
    /\ TokenOff
    /\ CreateOff
    /\ p_pc = "clean"
    /\ p_before \in ProcessItems
    /\ p_filtered = <<>>
    /\ p_k = 0
    /\ p_tiers = <<>>
    /\ c_pc = "set_name"
    /\ c_created \in {NewProduct(t, 1000, 0, a) : t \in ProcessTitles, a \in CleanScores}
    /\ c_product = c_created
    /\ c_item = p_before
    /\ c_units = <<>>
    /\ c_values = <<>>
    /\ c_calls = 0
    /\ c_first = <<>>
    /\ a_pc = "wait"
    /\ a_item = p_before
    /\ a_product = <<>>
    /\ a_tier = 0
    /\ a_no_match = FALSE
    /\ a_counts = <<>>

ProcessNext ==
    \/ CleanSetName
    \/ CleanAdjustQuantities
    \/ CleanAdjustMeasurements
    \/ CleanBasic
    \/ ProcessFilterName
    \/ ProcessTake
    \/ SetAccuracy
    \/ ProcessAverage

SpecProcess == ProcessInit /\ [][ProcessNext]_vars

(***************************************************************************)
(* A claim about ProductProcessor.process (checked under SpecProcess).     *)
(***************************************************************************)
\* C30: when process returns normally the target item holds in every field
\* what it held when process was called, variant_name and measurements
\* included, whichever tier applied to each filtered copy.
C30_ItemUnchanged ==
    p_pc = "returned" => (a_item = p_before /\ c_item = p_before)

\* process has returned for a listing from which clean consumed a
\* measurement and of which one filtered copy matched in no tier, so that
\* the names were rewritten without blanks and in lower case and put back
\* at lines 179-180.
C30_RewrittenAndConsumed ==
    /\ p_pc = "returned"
    /\ Consumed >= 1
    /\ \E k \in DOMAIN p_tiers : p_tiers[k] = 0
    /\ p_before.variant_name # no_spaces_lower(p_before.variant_name)


=============================================================================
